---------------------------- MODULE Spec2Model ----------------------------
(***************************************************************************)
(* realm: the routing proxy (src/src/proxy/server.rs) and the process      *)
(* supervisor (src/src/process/manager.rs).                                *)
(*                                                                         *)
(* Strings are sequences of one-character strings, so that contains,       *)
(* ends_with, trim_end_matches, starts_with and len are computed as the    *)
(* code computes them.  Option<T> is <<>> (None) or <<v>> (Some(v)); the    *)
(* Option<(String, u16)> of find_matching_route is <<>> or <<name, port>>.  *)
(***************************************************************************)
EXTENDS Integers, Sequences, FiniteSets, TLC

VARIABLES
  config,     \* RealmConfig.processes: name -> [port, routes]
  server,     \* "none" before ProxyServer::new, "new" after it
  route_map,  \* ProxyServer.route_map: the sorted Vec<RouteEntry>
  lookup,     \* the last direct call of find_matching_route: <<>> or <<path, result>>
  conns,      \* per accepted connection: the state of its handle_request task
  listening,  \* the upstream ports that accept connections and answer
  failed,     \* history: the paths for which a request was answered "unreachable"
  processes,  \* ProcessManager.processes: the HashMap name -> ProcessInfo
  lock,       \* the Mutex around processes: <<>> or <<thread>> holding the guard
  os,         \* the children spawned so far, by pid: what the OS knows of them
  threads,    \* per caller of the supervisor: the call in progress
  interleaved, \* the callers whose bulk call in progress ran beside another's
  returned,   \* the call that the latest step completed: <<>> or <<its report>>
  cli,        \* the realm commands run so far: where Start and Stop stand
  parsing,    \* Runtime::parse: <<>> or the call, its argument and its result
  accept_loop, \* ProxyServer::start: where it stands, and what it returned
  seen        \* per connection: what the other tasks were at when it was accepted

supVars == <<processes, lock, os, threads, interleaved, returned>>

proxyVars == <<config, server, route_map, lookup, conns, listening, failed>>

otherVars == <<cli, parsing, accept_loop, seen>>

vars == <<config, server, route_map, lookup, conns, listening, failed,
          processes, lock, os, threads, interleaved, returned,
          cli, parsing, accept_loop, seen>>

----------------------------------------------------------------------------
(* ProcessManager::new and the callers of the supervisor *)

\* the threads that hold a clone of the ProcessManager
Threads == {"t1", "t2"}

\* the functions each of them calls: t1 is the cli's thread, t2 another
\* holder of a clone that loads, starts and stops processes
Functions(t) ==
  IF t = "t1"
    THEN {"load_processes", "start_process", "stop_process", "restart_process",
          "start_all", "stop_all", "is_running", "get_process_port",
          "get_process_routes", "list_processes"}
    ELSE {"load_processes", "start_process", "stop_process"}

\* a caller that is in none of the supervisor's functions
IdleThread ==
  [op |-> "none", pc |-> "idle", name |-> "", names |-> <<>>, queue |-> <<>>,
   cfg |-> <<>>, taken |-> <<>>, log |-> <<>>, result |-> <<>>]

\* ProcessManager::new(): an empty map behind a free mutex, nothing spawned
NewProcessManager ==
  /\ processes = <<>>
  /\ lock = <<>>
  /\ os = <<>>
  /\ threads = [t \in Threads |-> IdleThread]
  /\ interleaved = {}
  /\ returned = <<>>

----------------------------------------------------------------------------
(* The commands of the cli, Runtime::parse and ProxyServer::start, before
   any of them has run *)

\* no realm command has been run
NoCommand == [pc |-> "none", cfg |-> <<>>, queue |-> <<>>, started |-> <<>>]

\* ProxyServer::start has not been called
NotStarted == [pc |-> "none", result |-> <<>>]

\* nothing but the proxy and the supervisor is in use
NothingElse ==
  /\ cli = NoCommand
  /\ parsing = <<>>
  /\ accept_loop = NotStarted
  /\ seen = <<>>

----------------------------------------------------------------------------
(* Bounds *)

\* the largest number of (process, route) pairs of a registry
MaxRoutes == 3

----------------------------------------------------------------------------
(* str methods used by the proxy *)

\* str::contains(char)
Contains(s, c) == \E i \in 1..Len(s) : s[i] = c

\* str::ends_with(char)
EndsWith(s, c) == Len(s) > 0 /\ s[Len(s)] = c

\* str::trim_end_matches(char): every trailing occurrence is removed
RECURSIVE TrimEndMatches(_, _)
TrimEndMatches(s, c) ==
  IF Len(s) > 0 /\ s[Len(s)] = c
    THEN TrimEndMatches(SubSeq(s, 1, Len(s) - 1), c)
    ELSE s

\* str::starts_with(&str)
StartsWith(s, prefix) ==
  /\ Len(prefix) <= Len(s)
  /\ SubSeq(s, 1, Len(prefix)) = prefix

----------------------------------------------------------------------------
(* Inputs: route patterns, request paths, registries *)

RootPattern == <<"/">>

Patterns ==
  { RootPattern,
    <<"/", "a">>,
    <<"/", "a", "b">>,
    <<"/", "a", "*">>,
    <<"/", "a", "b", "*">>,
    <<"/", "a", "*", "*">>,
    <<"/", "a", "*", "b">> }

Paths ==
  { <<"/">>,
    <<"/", "a">>,
    <<"/", "a", "b">>,
    <<"/", "a", "b", "c">>,
    <<"/", "a", "*", "b">>,
    <<"/", "b">> }

Procs == {"api", "web"}

PortOptions == {<<>>, <<4001>>}

RouteLists(n) == UNION {[1..k -> Patterns] : k \in 0..n}

\* a registry: RealmConfig.processes
Registry(pa, ra, pw, rw) ==
  [p \in Procs |-> IF p = "api" THEN [port |-> pa, routes |-> ra]
                                ELSE [port |-> pw, routes |-> rw]]

\* the orders in which a HashMap over the keys S may be iterated
RECURSIVE IterOrders(_)
IterOrders(S) ==
  IF S = {} THEN {<<>>}
  ELSE UNION { { <<x>> \o t : t \in IterOrders(S \ {x}) } : x \in S }

----------------------------------------------------------------------------
(* build_route_map *)

DefaultPort == 3000

\* process_config.port.unwrap_or(3000)
PortOf(pc) == IF pc.port = <<>> THEN DefaultPort ELSE pc.port[1]

\* mutant of ProcessEntries: the configured port is never read
ProcessEntriesDefaultPort(name, pc) ==
  [i \in 1..Len(pc.routes) |->
     [pattern |-> pc.routes[i], process |-> name, port |-> DefaultPort]]

\* the inner loop: one RouteEntry per route of the process
ProcessEntries(name, pc) ==
  [i \in 1..Len(pc.routes) |->
     [pattern |-> pc.routes[i], process |-> name, port |-> PortOf(pc)]]

\* the outer loop, over the processes in the map's iteration order
RECURSIVE PushEntries(_, _)
PushEntries(cfg, order) ==
  IF order = <<>> THEN <<>>
  ELSE ProcessEntries(Head(order), cfg[Head(order)])
         \o PushEntries(cfg, Tail(order))

\* the comparator of routes.sort_by: "Less", "Equal" or "Greater"
RouteCmp(a, b) ==
  LET a_wildcard == Contains(a.pattern, "*")
      b_wildcard == Contains(b.pattern, "*")
  IN  IF ~a_wildcard /\ b_wildcard THEN "Less"
      ELSE IF a_wildcard /\ ~b_wildcard THEN "Greater"
      ELSE IF Len(b.pattern) < Len(a.pattern) THEN "Less"
      ELSE IF Len(b.pattern) > Len(a.pattern) THEN "Greater"
      ELSE "Equal"

\* an insertion that drops an entry the sorted list already holds
RECURSIVE InsertOnce(_, _)
InsertOnce(sorted, e) ==
  IF sorted = <<>> THEN <<e>>
  ELSE IF Head(sorted) = e THEN sorted
  ELSE IF RouteCmp(e, Head(sorted)) = "Less"
    THEN <<e>> \o sorted
    ELSE <<Head(sorted)>> \o InsertOnce(Tail(sorted), e)

\* slice::sort_by is stable: an entry goes after the sorted entries that are
\* not greater than it
RECURSIVE InsertStable(_, _)
InsertStable(sorted, e) ==
  IF sorted = <<>> THEN <<e>>
  ELSE IF RouteCmp(e, Head(sorted)) = "Less"
    THEN <<e>> \o sorted
    ELSE <<Head(sorted)>> \o InsertStable(Tail(sorted), e)

RECURSIVE SortBy(_)
SortBy(routes) ==
  IF routes = <<>> THEN <<>>
  ELSE InsertStable(SortBy(SubSeq(routes, 1, Len(routes) - 1)),
                    routes[Len(routes)])

BuildRouteMap(cfg, order) == SortBy(PushEntries(cfg, order))

----------------------------------------------------------------------------
(* find_matching_route *)

NoMatch == <<>>

\* mutant of MatchStep: the exact comparison is missing
MatchStepNoExact(st, entry, path) ==
  LET d == IF entry.pattern = <<"/">> /\ st.default_route = NoMatch
             THEN <<entry.process, entry.port>>
             ELSE st.default_route
      w == IF /\ EndsWith(entry.pattern, "*")
              /\ StartsWith(path, TrimEndMatches(entry.pattern, "*"))
              /\ st.wildcard_match = NoMatch
             THEN <<entry.process, entry.port>>
             ELSE st.wildcard_match
  IN  [ret |-> NoMatch, wildcard_match |-> w, default_route |-> d]

\* one iteration of the loop over the entries; st = [ret, wildcard_match,
\* default_route], ret being the early return of an exact match
MatchStep(st, entry, path) ==
  IF st.ret # NoMatch THEN st
  ELSE IF ~Contains(entry.pattern, "*") /\ entry.pattern = path
    THEN [st EXCEPT !.ret = <<entry.process, entry.port>>]
  ELSE
    LET d == IF entry.pattern = RootPattern /\ st.default_route = NoMatch
               THEN <<entry.process, entry.port>>
               ELSE st.default_route
        w == IF /\ EndsWith(entry.pattern, "*")
                /\ StartsWith(path, TrimEndMatches(entry.pattern, "*"))
                /\ st.wildcard_match = NoMatch
               THEN <<entry.process, entry.port>>
               ELSE st.wildcard_match
    IN  [ret |-> NoMatch, wildcard_match |-> w, default_route |-> d]

RECURSIVE MatchLoop(_, _, _)
MatchLoop(st, entries, path) ==
  IF entries = <<>> THEN st
  ELSE MatchLoop(MatchStep(st, Head(entries), path), Tail(entries), path)

\* mutant of OptionOr: the operands are taken in the other order
OptionOrSwapped(a, b) == IF b # <<>> THEN b ELSE a

\* wildcard_match.or(default_route)
OptionOr(a, b) == IF a # <<>> THEN a ELSE b

FindMatchingRoute(path, routes) ==
  LET st == MatchLoop([ret |-> NoMatch, wildcard_match |-> NoMatch,
                       default_route |-> NoMatch], routes, path)
  IN  IF st.ret # NoMatch THEN st.ret
      ELSE OptionOr(st.wildcard_match, st.default_route)

----------------------------------------------------------------------------
(* HTTP messages.  A header map is the sequence of its (name, value) pairs  *)
(* in iteration order; names are lower case, as HeaderName keeps them; a    *)
(* value or a body is a sequence of tokens.                                 *)

Pair(n, v) == [name |-> n, value |-> v]

\* the number of occurrences of a pair in a header map
Count(h, pr) == Cardinality({ i \in 1..Len(h) : h[i] = pr })

\* the values a header map holds for a name
Values(h, n) == { h[i].value : i \in { j \in 1..Len(h) : h[j].name = n } }

\* HeaderMap::append, as Builder::header does it: a further value of a name
\* is kept with the values the map has for that name
RECURSIVE HeaderAppend(_, _, _)
HeaderAppend(h, n, v) ==
  IF h = <<>> THEN <<Pair(n, v)>>
  ELSE IF Head(h).name = n /\ (Len(h) = 1 \/ h[2].name # n)
    THEN <<Head(h), Pair(n, v)>> \o Tail(h)
  ELSE IF \E i \in 1..Len(h) : h[i].name = n
    THEN <<Head(h)>> \o HeaderAppend(Tail(h), n, v)
  ELSE h \o <<Pair(n, v)>>

\* the header map a message's header lines (in wire order) are parsed into
RECURSIVE HeaderMapOf(_)
HeaderMapOf(lines) ==
  IF lines = <<>> THEN <<>>
  ELSE HeaderAppend(HeaderMapOf(SubSeq(lines, 1, Len(lines) - 1)),
                    lines[Len(lines)].name, lines[Len(lines)].value)

\* HeaderMap::into_iter yields (Option<HeaderName>, value): the name is Some
\* for the first value of a name only, None for its further values
IntoIter(h) ==
  [i \in 1..Len(h) |->
     [name  |-> IF i > 1 /\ h[i - 1].name = h[i].name THEN <<>> ELSE <<h[i].name>>,
      value |-> h[i].value]]

\* s has sub as a contiguous part
IsInfix(sub, s) ==
  \E i \in 0..(Len(s) - Len(sub)) : SubSeq(s, i + 1, i + Len(sub)) = sub

HealthPath == <<"/", "h", "e", "a", "l", "t", "h">>

\* Uri::path_and_query().as_str() of an origin-form request target
PathAndQuery(req) ==
  IF req.query = <<>> THEN req.path ELSE req.path \o <<"?">> \o req.query[1]

----------------------------------------------------------------------------
(* Inputs of the serving proxy *)

Conns == {"c1", "c2"}

\* method and query of a request line
RequestLines == { <<"GET", <<>>>>, <<"POST", <<<<"q">>>>>> }

RequestPaths == { HealthPath, <<"/", "a", "b">>, <<"/", "b">> }

RequestHeaderLines ==
  { <<Pair("accept", <<"a">>)>>,
    <<Pair("host", <<"example.com">>), Pair("accept", <<"a">>),
      Pair("cookie", <<"c">>), Pair("accept", <<"b">>)>> }

Requests ==
  { [method |-> rl[1], path |-> p, query |-> rl[2], headers |-> HeaderMapOf(l)] :
      rl \in RequestLines, p \in RequestPaths, l \in RequestHeaderLines }

UpstreamResponses ==
  { [status |-> 200, body |-> <<"ok">>,
     headers |-> HeaderMapOf(<<Pair("content-type", <<"text/plain">>)>>)],
    [status |-> 404, body |-> <<"no">>,
     headers |-> HeaderMapOf(<<Pair("set-cookie", <<"a=1">>),
                               Pair("set-cookie", <<"b=2">>)>>)],
    [status |-> 500, body |-> <<"err">>,
     headers |-> HeaderMapOf(<<Pair("access-control-allow-origin",
                                    <<"http://localhost">>)>>)] }

\* the ports the route table sends requests to
UpstreamPorts(routes) == { routes[i].port : i \in 1..Len(routes) }

\* the registries the proxy is started with
ServedConfigs ==
  { Registry(<<4001>>, <<HealthPath, <<"/", "a", "b">>>>, <<>>, <<>>),
    Registry(<<4001>>, <<<<"/", "h", "*">>>>, <<>>, <<RootPattern>>) }

----------------------------------------------------------------------------
(* handle_request and proxy_request *)

None == <<>>
Some(x) == <<x>>

IdleConn ==
  [pc |-> "idle", req |-> None, routed |-> FALSE, target |-> NoMatch,
   proxy_req |-> None, upstream |-> None, received |-> FALSE,
   response |-> None, after_failure |-> FALSE]

Response(status, headers, body, via) ==
  [status |-> status, headers |-> headers, body |-> body, via |-> via]

\* the response of the health check endpoint
HealthResponse ==
  Response(200, <<Pair("content-type", <<"text/plain">>)>>, <<"healthy">>,
           "health")

\* mutant of NotFoundResponse: the body does not name the path
NotFoundResponseNoPath(path) ==
  Response(404, <<Pair("content-type", <<"text/html">>)>>,
           <<"<h1>404 Not Found</h1><p>No route configured</p>">>,
           "not_found")

\* the response when no route matches
NotFoundResponse(path) ==
  Response(404, <<Pair("content-type", <<"text/html">>)>>,
           <<"<h1>404 Not Found</h1><p>No route configured for: ">>
             \o path \o <<"</p>">>,
           "not_found")

\* format!("127.0.0.1:{port}")
HostValue(port) == <<"127.0.0.1:", ToString(port)>>

\* format!("{}{}", target_url, path_and_query), parsed as a hyper::Uri
TargetUri(req, port) ==
  [scheme |-> "http", authority |-> HostValue(port),
   path_and_query |-> PathAndQuery(req)]

RECURSIVE CopyHeaders(_, _)
CopyHeaders(builder, hs) ==
  IF hs = <<>> THEN builder
  ELSE CopyHeaders(IF Head(hs).name # "host"
                     THEN HeaderAppend(builder, Head(hs).name, Head(hs).value)
                     ELSE builder,
                   Tail(hs))

\* mutant of ProxyHeaders: the inbound Host header is copied like the others
ProxyHeadersKeepHost(req, port) ==
  HeaderAppend(req.headers, "host", HostValue(port))

\* the headers of the outbound request: every inbound header except host,
\* then the new host header
ProxyHeaders(req, port) ==
  HeaderAppend(CopyHeaders(<<>>, req.headers), "host", HostValue(port))

\* the request built for the upstream (the inbound body goes with it)
ProxyRequest(req, port) ==
  [method |-> req.method, uri |-> TargetUri(req, port),
   headers |-> ProxyHeaders(req, port)]

BadRequestResponse ==
  Response(400, <<>>, <<"Failed to read request body">>, "bad_request")

\* mutant of UnreachableResponse: the body does not name the port
UnreachableResponseNoPort(process_name, port) ==
  Response(502, <<Pair("content-type", <<"text/html">>)>>,
           <<"<h1>502 Bad Gateway</h1><p>Failed to connect to ", process_name,
             "</p><p>Make sure the process is running.</p>">>,
           "unreachable")

\* the response when client.request fails
UnreachableResponse(process_name, port) ==
  Response(502, <<Pair("content-type", <<"text/html">>)>>,
           <<"<h1>502 Bad Gateway</h1><p>Failed to connect to ", process_name,
             " (port ", ToString(port),
             ")</p><p>Make sure the process is running.</p>">>,
           "unreachable")

UpstreamBodyResponse ==
  Response(502, <<>>, <<"Failed to read response from upstream">>,
           "upstream_body")

CorsHeaders ==
  << Pair("access-control-allow-origin", <<"*">>),
     Pair("access-control-allow-methods", <<"GET, POST, PUT, DELETE, OPTIONS">>),
     Pair("access-control-allow-headers", <<"Content-Type, Authorization">>) >>

RECURSIVE AppendAll(_, _)
AppendAll(builder, hs) ==
  IF hs = <<>> THEN builder
  ELSE AppendAll(HeaderAppend(builder, Head(hs).name, Head(hs).value), Tail(hs))

\* name.unwrap() panics on an item of the iteration that carries no name
UnwrapPanics(parts) == \E i \in 1..Len(IntoIter(parts.headers)) :
                          IntoIter(parts.headers)[i].name = None

\* the headers copied by "response_builder.header(name.unwrap(), value)"
CopiedResponseHeaders(parts) ==
  LET items == IntoIter(parts.headers)
  IN  AppendAll(<<>>, [i \in 1..Len(items) |->
                         Pair(items[i].name[1], items[i].value)])

\* mutant of RelayedResponse: the CORS headers are added only when the
\* upstream did not set an allow-origin itself
RelayedResponseKeepCors(parts) ==
  Response(parts.status,
           IF Values(parts.headers, "access-control-allow-origin") # {}
             THEN CopiedResponseHeaders(parts)
             ELSE AppendAll(CopiedResponseHeaders(parts), CorsHeaders),
           parts.body, "relayed")

\* the response built from a completely received upstream response
RelayedResponse(parts) ==
  Response(parts.status,
           AppendAll(CopiedResponseHeaders(parts), CorsHeaders),
           parts.body, "relayed")

\* the part of handle_request after the health check, up to the first
\* await of proxy_request (req.collect())
RouteRequest(req, routes, after) ==
  LET target == FindMatchingRoute(req.path, routes)
  IN  IF target = NoMatch
        THEN [IdleConn EXCEPT !.pc = "done", !.req = Some(req), !.routed = TRUE,
                              !.response = Some(NotFoundResponse(req.path))]
        ELSE [IdleConn EXCEPT !.pc = "collect", !.req = Some(req),
                              !.routed = TRUE, !.target = target,
                              !.after_failure = (req.path \in after)]

\* mutant of HandleRequest: the health check is routed like any other path
HandleRequestNoHealth(req, routes, after) == RouteRequest(req, routes, after)

\* handle_request up to its first await
HandleRequest(req, routes, after) ==
  IF req.path = HealthPath
    THEN [IdleConn EXCEPT !.pc = "done", !.req = Some(req),
                          !.response = Some(HealthResponse)]
    ELSE RouteRequest(req, routes, after)

----------------------------------------------------------------------------
(* The serving proxy: ProxyServer::start with its connection tasks *)

Init ==
  /\ config \in ServedConfigs
  /\ server = "new"
  /\ \E order \in IterOrders(DOMAIN config) :
       route_map = BuildRouteMap(config, order)
  /\ lookup = <<>>
  /\ conns = [c \in Conns |-> IdleConn]
  /\ listening \in SUBSET UpstreamPorts(route_map)
  /\ failed = {}
  /\ NewProcessManager
  /\ NothingElse

\* a request arrives on a connection and its handler runs to its first await
Accept(c) ==
  /\ conns[c].pc = "idle"
  /\ \E req \in Requests :
       conns' = [conns EXCEPT ![c] = HandleRequest(req, route_map, failed)]
  /\ UNCHANGED <<config, server, route_map, lookup, listening, failed>>
  /\ UNCHANGED supVars
  /\ UNCHANGED otherVars

\* req.collect() succeeds: the outbound request is complete and is sent
CollectBodyOk(c) ==
  /\ conns[c].pc = "collect"
  /\ conns' = [conns EXCEPT
       ![c].pc = "connect",
       ![c].proxy_req = Some(ProxyRequest(conns[c].req[1], conns[c].target[2]))]
  /\ UNCHANGED <<config, server, route_map, lookup, listening, failed>>
  /\ UNCHANGED supVars
  /\ UNCHANGED otherVars

\* req.collect() fails
CollectBodyErr(c) ==
  /\ conns[c].pc = "collect"
  /\ conns' = [conns EXCEPT ![c].pc = "done",
                            ![c].response = Some(BadRequestResponse)]
  /\ UNCHANGED <<config, server, route_map, lookup, listening, failed>>
  /\ UNCHANGED supVars
  /\ UNCHANGED otherVars

\* client.request(proxy_req) fails: the upstream cannot be reached
ConnectErr(c) ==
  /\ conns[c].pc = "connect"
  /\ conns[c].target[2] \notin listening
  /\ conns' = [conns EXCEPT
       ![c].pc = "done",
       ![c].response =
          Some(UnreachableResponse(conns[c].target[1], conns[c].target[2]))]
  /\ failed' = failed \cup {conns[c].req[1].path}
  /\ UNCHANGED <<config, server, route_map, lookup, listening>>
  /\ UNCHANGED supVars
  /\ UNCHANGED otherVars

\* client.request(proxy_req) returns the head of the upstream's response
ConnectOk(c) ==
  /\ conns[c].pc = "connect"
  /\ conns[c].target[2] \in listening
  /\ \E parts \in UpstreamResponses :
       conns' = [conns EXCEPT ![c].pc = "resp_body", ![c].upstream = Some(parts)]
  /\ UNCHANGED <<config, server, route_map, lookup, listening, failed>>
  /\ UNCHANGED supVars
  /\ UNCHANGED otherVars

\* body.collect() succeeds: the response is rebuilt for the client, unless
\* name.unwrap() panics, which ends the connection's task with no response
ResponseBodyOk(c) ==
  /\ conns[c].pc = "resp_body"
  /\ conns' = [conns EXCEPT
       ![c].received = TRUE,
       ![c].pc = IF UnwrapPanics(conns[c].upstream[1]) THEN "panicked" ELSE "done",
       ![c].response = IF UnwrapPanics(conns[c].upstream[1])
                         THEN None
                         ELSE Some(RelayedResponse(conns[c].upstream[1]))]
  /\ UNCHANGED <<config, server, route_map, lookup, listening, failed>>
  /\ UNCHANGED supVars
  /\ UNCHANGED otherVars

\* body.collect() fails
ResponseBodyErr(c) ==
  /\ conns[c].pc = "resp_body"
  /\ conns' = [conns EXCEPT ![c].pc = "done",
                            ![c].response = Some(UpstreamBodyResponse)]
  /\ UNCHANGED <<config, server, route_map, lookup, listening, failed>>
  /\ UNCHANGED supVars
  /\ UNCHANGED otherVars

\* the exchange is over; the connection takes its next request, or a new
\* connection takes its place
Finish(c) ==
  /\ conns[c].pc \in {"done", "panicked"}
  /\ conns' = [conns EXCEPT ![c] = IdleConn]
  /\ UNCHANGED <<config, server, route_map, lookup, listening, failed>>
  /\ UNCHANGED supVars
  /\ UNCHANGED otherVars

\* an upstream process starts or stops listening on its port
UpstreamUp(p) ==
  /\ p \notin listening
  /\ listening' = listening \cup {p}
  /\ UNCHANGED <<config, server, route_map, lookup, conns, failed>>
  /\ UNCHANGED supVars
  /\ UNCHANGED otherVars

UpstreamDown(p) ==
  /\ p \in listening
  /\ listening' = listening \ {p}
  /\ UNCHANGED <<config, server, route_map, lookup, conns, failed>>
  /\ UNCHANGED supVars
  /\ UNCHANGED otherVars

Next ==
  \/ \E c \in Conns : Accept(c)
  \/ \E c \in Conns : CollectBodyOk(c)
  \/ \E c \in Conns : CollectBodyErr(c)
  \/ \E c \in Conns : ConnectErr(c)
  \/ \E c \in Conns : ConnectOk(c)
  \/ \E c \in Conns : ResponseBodyOk(c)
  \/ \E c \in Conns : ResponseBodyErr(c)
  \/ \E c \in Conns : Finish(c)
  \/ \E p \in UpstreamPorts(route_map) : UpstreamUp(p)
  \/ \E p \in UpstreamPorts(route_map) : UpstreamDown(p)

Spec == Init /\ [][Next]_vars

----------------------------------------------------------------------------
(* The route table built and queried directly, as the unit tests of         *)
(* server.rs do: any registry, any iteration order, any path.               *)

\* the registries with at most MaxRoutes routes in all
InitRoute ==
  /\ \E k \in 0..MaxRoutes, pa \in PortOptions, pw \in PortOptions :
       \E ra \in [1..k -> Patterns], rw \in RouteLists(MaxRoutes - k) :
         config = Registry(pa, ra, pw, rw)
  /\ server = "none"
  /\ route_map = <<>>
  /\ lookup = <<>>
  /\ conns = [c \in Conns |-> IdleConn]
  /\ listening = {}
  /\ failed = {}
  /\ NewProcessManager
  /\ NothingElse

\* ProxyServer::new: the table is built once, in some iteration order
NewProxyServer ==
  /\ server = "none"
  /\ \E order \in IterOrders(DOMAIN config) :
       route_map' = BuildRouteMap(config, order)
  /\ server' = "new"
  /\ UNCHANGED <<config, lookup, conns, listening, failed>>
  /\ UNCHANGED supVars
  /\ UNCHANGED otherVars

\* find_matching_route(path, &routes)
Lookup ==
  /\ server = "new"
  /\ lookup = <<>>
  /\ \E path \in Paths :
       lookup' = <<path, FindMatchingRoute(path, route_map)>>
  /\ UNCHANGED <<config, server, route_map, conns, listening, failed>>
  /\ UNCHANGED supVars
  /\ UNCHANGED otherVars

NextRoute == NewProxyServer \/ Lookup

SpecRoute == InitRoute /\ [][NextRoute]_vars

----------------------------------------------------------------------------
(* Properties of the route table and of the matcher (SpecRoute) *)

LookupDone == lookup # <<>>
LookupPath == lookup[1]
LookupResult == lookup[2]

\* the (process, port) pairs of the processes that register pattern p
Owners(p) ==
  { <<q, PortOf(config[q])>> :
      q \in { r \in DOMAIN config :
                \E i \in 1..Len(config[r].routes) : config[r].routes[i] = p } }

Target(e) == <<e.process, e.port>>

TableEntries == { route_map[i] : i \in 1..Len(route_map) }

\* the prefix of a wildcard pattern, as the matcher computes it
Prefix(e) == TrimEndMatches(e.pattern, "*")

\* the wildcard entries of the table that match path
MatchingWildcards(path) ==
  { e \in TableEntries : EndsWith(e.pattern, "*") /\ StartsWith(path, Prefix(e)) }

DefaultEntries == { e \in TableEntries : e.pattern = RootPattern }

\* the table has an entry that the exact comparison accepts for path
HasExact(path) ==
  \E e \in TableEntries : ~Contains(e.pattern, "*") /\ e.pattern = path

C2_WildcardThenDefault ==
  LookupDone =>
    /\ ~HasExact(LookupPath) =>
         IF MatchingWildcards(LookupPath) # {}
           THEN LookupResult \in { Target(e) : e \in MatchingWildcards(LookupPath) }
         ELSE IF DefaultEntries # {}
           THEN LookupResult \in { Target(e) : e \in DefaultEntries }
         ELSE LookupResult = NoMatch
    /\ (Len(route_map) = 1 /\ route_map[1].pattern = RootPattern)
         => LookupResult = Target(route_map[1])

\* C2 witness: no exact entry, a matching wildcard of one process and a '/'
\* route of the other, and the wildcard's process was returned.
C2_Witness ==
  /\ LookupDone
  /\ ~HasExact(LookupPath)
  /\ MatchingWildcards(LookupPath) # {}
  /\ DefaultEntries # {}
  /\ LookupResult \notin { Target(e) : e \in DefaultEntries }

\* the matching wildcard entries with the longest prefix
MostSpecific(path) ==
  { e \in MatchingWildcards(path) :
      \A f \in MatchingWildcards(path) : Len(Prefix(f)) <= Len(Prefix(e)) }

\* C3: when wildcard routes match the path and no exact route does, the
\* lookup returns the process and port of a matching wildcard with the
\* longest prefix, whatever the iteration order of the process map.
C3_MostSpecificWildcardWins ==
  (LookupDone /\ ~HasExact(LookupPath) /\ MatchingWildcards(LookupPath) # {})
    => LookupResult \in { Target(e) : e \in MostSpecific(LookupPath) }

\* C4 as stated: every pattern that does not end in '*' and is registered by
\* a process q is matched, as a path, to q and q's port.
C4_RoundTripAsStated ==
  server = "new" =>
    \A q \in DOMAIN config : \A i \in 1..Len(config[q].routes) :
      LET p == config[q].routes[i]
      IN  ~EndsWith(p, "*")
            => FindMatchingRoute(p, route_map) = <<q, PortOf(config[q])>>

\* C4 amended: every registered pattern that contains no '*' is matched, as
\* a path, to a process that registers it and that process's port (to q
\* itself when q is the only process that registers it).
C4_RoundTripStarFree ==
  server = "new" =>
    \A q \in DOMAIN config : \A i \in 1..Len(config[q].routes) :
      LET p == config[q].routes[i]
      IN  ~Contains(p, "*")
            => /\ FindMatchingRoute(p, route_map) \in Owners(p)
               /\ Owners(p) = {<<q, PortOf(config[q])>>}
                    => FindMatchingRoute(p, route_map) = <<q, PortOf(config[q])>>

\* C4 witness: a built table in which both processes register the same
\* '*'-free pattern with different ports, a wildcard matches it too, and the
\* pattern is matched to one of them.
C4_Witness ==
  /\ server = "new"
  /\ \E p \in Patterns :
       /\ ~Contains(p, "*")
       /\ Cardinality(Owners(p)) = 2
       /\ MatchingWildcards(p) # {}
       /\ FindMatchingRoute(p, route_map) \in Owners(p)

----------------------------------------------------------------------------
(* Properties of the serving proxy (Spec) *)

Handling(c) == conns[c].req # None
Req(c) == conns[c].req[1]
Resp(c) == conns[c].response[1]

HeaderPairs(h) == { h[i] : i \in 1..Len(h) }

\* C5: a request for exactly /health is answered at once with 200,
\* content-type text/plain and body "healthy", whatever the route table
\* holds for /health; the matcher is not called and nothing is sent to an
\* upstream.
C5_HealthAnsweredLocally ==
  \A c \in Conns :
    (Handling(c) /\ Req(c).path = HealthPath) =>
      /\ conns[c].pc = "done"
      /\ conns[c].response # None
      /\ Resp(c).status = 200
      /\ Resp(c).headers = <<Pair("content-type", <<"text/plain">>)>>
      /\ Resp(c).body = <<"healthy">>
      /\ ~conns[c].routed
      /\ conns[c].proxy_req = None
      /\ conns[c].upstream = None

\* C5 witness: /health was answered while the route table has /health as
\* an exact route.
C5_Witness ==
  \E c \in Conns :
    /\ Handling(c) /\ Req(c).path = HealthPath
    /\ conns[c].pc = "done"
    /\ Resp(c).body = <<"healthy">>
    /\ HasExact(HealthPath)

\* C6: a request for a path other than /health that the matcher does not
\* match is answered with 404 and an HTML body that contains the path, and
\* nothing is sent to an upstream.
C6_NotFoundNamesPath ==
  \A c \in Conns :
    (/\ Handling(c)
     /\ Req(c).path # HealthPath
     /\ FindMatchingRoute(Req(c).path, route_map) = NoMatch) =>
      /\ conns[c].pc = "done"
      /\ conns[c].response # None
      /\ Resp(c).status = 404
      /\ Resp(c).headers = <<Pair("content-type", <<"text/html">>)>>
      /\ IsInfix(Req(c).path, Resp(c).body)
      /\ conns[c].proxy_req = None
      /\ conns[c].upstream = None

\* C6 witness: an unmatched request was answered 404.
C6_Witness ==
  \E c \in Conns :
    /\ Handling(c)
    /\ Req(c).path # HealthPath
    /\ FindMatchingRoute(Req(c).path, route_map) = NoMatch
    /\ conns[c].response # None
    /\ Resp(c).status = 404

\* C7: the request sent to the upstream targets 127.0.0.1:<matched port>,
\* has the inbound method and path+query, carries every inbound header pair
\* other than host as often as the inbound request does, and carries host
\* exactly once, with the value 127.0.0.1:<matched port>.
C7_OutboundRequest ==
  \A c \in Conns :
    conns[c].proxy_req # None =>
      LET out  == conns[c].proxy_req[1]
          port == FindMatchingRoute(Req(c).path, route_map)[2]
      IN  /\ out.uri.scheme = "http"
          /\ out.uri.authority = <<"127.0.0.1:", ToString(port)>>
          /\ out.uri.path_and_query = PathAndQuery(Req(c))
          /\ out.method = Req(c).method
          /\ \A pr \in HeaderPairs(Req(c).headers) \cup HeaderPairs(out.headers) :
               pr.name # "host"
                 => Count(out.headers, pr) = Count(Req(c).headers, pr)
          /\ Cardinality({ i \in 1..Len(out.headers) : out.headers[i].name = "host" }) = 1
          /\ Values(out.headers, "host") = {<<"127.0.0.1:", ToString(port)>>}

\* C7 witness: a POST with a query, a Host header and a repeated header name
\* was sent to the upstream.
C7_Witness ==
  \E c \in Conns :
    /\ conns[c].proxy_req # None
    /\ Req(c).method = "POST"
    /\ Req(c).query # None
    /\ Values(Req(c).headers, "host") # {}
    /\ Cardinality(Values(Req(c).headers, "accept")) = 2
    /\ Cardinality(Values(conns[c].proxy_req[1].headers, "accept")) = 2

\* C8: once the upstream's response has been received completely, the
\* client is answered with the upstream's status, every header pair of the
\* upstream and the upstream's body.
C8_UpstreamResponseRelayed ==
  \A c \in Conns :
    conns[c].received =>
      /\ conns[c].response # None
      /\ Resp(c).status = conns[c].upstream[1].status
      /\ \A pr \in HeaderPairs(conns[c].upstream[1].headers) :
           Count(Resp(c).headers, pr) >= Count(conns[c].upstream[1].headers, pr)
      /\ Resp(c).body = conns[c].upstream[1].body

\* C9: every response relayed from an upstream carries the three CORS
\* headers, whatever the upstream's status and headers.
C9_CorsHeaders ==
  \A c \in Conns :
    (conns[c].received /\ conns[c].response # None) =>
      /\ <<"*">> \in Values(Resp(c).headers, "access-control-allow-origin")
      /\ <<"GET, POST, PUT, DELETE, OPTIONS">>
           \in Values(Resp(c).headers, "access-control-allow-methods")
      /\ <<"Content-Type, Authorization">>
           \in Values(Resp(c).headers, "access-control-allow-headers")

\* C9 witness: an upstream's 500 that set an allow-origin itself was relayed.
C9_Witness ==
  \E c \in Conns :
    /\ conns[c].received /\ conns[c].response # None
    /\ Resp(c).status = 500
    /\ Values(Resp(c).headers, "access-control-allow-origin")
         = {<<"http://localhost">>, <<"*">>}

\* what C10 says of every state
C10_State ==
  \A c \in Conns :
    /\ (conns[c].response # None /\ Resp(c).via = "unreachable") =>
         /\ Resp(c).status = 502
         /\ Resp(c).headers = <<Pair("content-type", <<"text/html">>)>>
         /\ IsInfix(<<conns[c].target[1]>>, Resp(c).body)
         /\ IsInfix(<<ToString(conns[c].target[2])>>, Resp(c).body)
    /\ (Handling(c) /\ conns[c].routed) =>
         /\ conns[c].target = FindMatchingRoute(Req(c).path, route_map)
         /\ conns[c].proxy_req # None =>
              conns[c].proxy_req[1].uri.authority = HostValue(conns[c].target[2])

\* what C10 says of every step
C10_Step ==
  /\ route_map' = route_map
  /\ \A c \in Conns :
       (conns[c].pc = "connect" /\ conns'[c].pc # "connect") =>
         IF conns[c].target[2] \in listening
           THEN conns'[c].pc = "resp_body" /\ conns'[c].upstream # None
           ELSE /\ conns'[c].pc = "done"
                /\ conns'[c].response # None
                /\ conns'[c].response[1].via = "unreachable"

\* C10: a request whose upstream cannot be reached is answered 502 with an
\* HTML body naming the process and the port; the route table never changes;
\* every request, also one that follows a failure, is routed by the table
\* alone and sent to the matched port; and it gets the upstream's response
\* whenever the upstream is reachable when it is sent.
C10_UnreachableUpstream == []C10_State /\ [][C10_Step]_vars

\* C10 witness: a request accepted after the same path was answered
\* "unreachable" has been relayed from the upstream.
C10_Witness ==
  \E c \in Conns :
    /\ conns[c].after_failure
    /\ Req(c).path \in failed
    /\ conns[c].received
    /\ conns[c].response # None
    /\ Resp(c).via = "relayed"

----------------------------------------------------------------------------
(* C11 *)

\* the statuses handle_request and proxy_request build themselves
LocalStatuses == {200, 404, 400, 500, 502}

\* C11: every inbound request is answered with exactly one response, whatever
\* the route table and whatever the upstream does: a handler that has left
\* its request has built a response (one of the proxy's own statuses, or the
\* upstream's response relayed), and no handler aborts its task.
C11_EveryRequestAnswered ==
  \A c \in Conns :
    /\ conns[c].pc # "panicked"
    /\ conns[c].pc = "done" =>
         /\ conns[c].response # None
         /\ \/ Resp(c).via = "relayed"
            \/ Resp(c).status \in LocalStatuses

----------------------------------------------------------------------------
(* The process supervisor: src/src/process/manager.rs *)

\* the number of children the OS lets the supervisor spawn in all
MaxSpawns == 2

\* what char::is_whitespace accepts, of the characters used here
Whitespace == {" ", "\t"}

\* str::split_whitespace from position i on, word being the run read so far
RECURSIVE SplitFrom(_, _, _)
SplitFrom(s, i, word) ==
  LET flushed == IF word = <<>> THEN <<>> ELSE <<word>>
  IN  IF i > Len(s) THEN flushed
      ELSE IF s[i] \in Whitespace
        THEN flushed \o SplitFrom(s, i + 1, <<>>)
        ELSE SplitFrom(s, i + 1, Append(word, s[i]))

\* command.split_whitespace().collect()
SplitWhitespace(s) == SplitFrom(s, 1, <<>>)

\* ProcessConfig
ProcessConfig(command, port, routes, working_directory) ==
  [command |-> command, port |-> port, routes |-> routes,
   working_directory |-> working_directory]

\* the RealmConfig.processes given to load_processes: one with a command
\* that has an argument and a plain command, one with a blank command and an
\* empty one
ManagerConfigs ==
  { [n \in {"api", "web"} |->
       IF n = "api"
         THEN ProcessConfig(<<"s", " ", "-", "v">>, <<4001>>, <<<<"/", "a">>>>,
                            <<>>)
         ELSE ProcessConfig(<<"s">>, <<>>, <<<<"/">>>>, <<"dir">>)],
    [n \in {"web", "job"} |->
       IF n = "web"
         THEN ProcessConfig(<<" ", "\t">>, <<4002>>, <<>>, <<>>)
         ELSE ProcessConfig(<<>>, <<>>, <<>>, <<>>)] }

\* the names callers ask for; each is missing from one of the configs
Names == {"api", "web", "job"}

\* the error Command::spawn reports for a program it cannot execute
OsErrors == {"ENOENT"}

\* Ok(())
OkUnit == [tag |-> "Ok", message |-> <<>>, source |-> <<>>]

\* anyhow!("Process '{}' not found", name)
NotFoundError(name) ==
  [tag |-> "Err", message |-> <<"Process '", name, "' not found">>, source |-> <<>>]

\* anyhow!("Empty command for process '{}'", name)
EmptyCommandError(name) ==
  [tag |-> "Err", message |-> <<"Empty command for process '", name, "'">>,
   source |-> <<>>]

\* a start failure that names the process but drops the OS error
StartFailedErrorNoSource(name, errno) ==
  [tag |-> "Err", message |-> <<"Failed to start process '", name, "'">>,
   source |-> <<>>]

\* spawn().context(format!("Failed to start process '{name}'")): the OS
\* error wrapped in the context message
StartFailedError(name, errno) ==
  [tag |-> "Err", message |-> <<"Failed to start process '", name, "'">>,
   source |-> <<errno>>]

\* the ProcessInfo load_processes builds
ProcessInfo(name, process_config) ==
  [name |-> name, config |-> process_config, child |-> <<>>,
   port |-> process_config.port]

\* processes.clear() that drops nothing
ClearKeepsEntries(procs) == procs

\* processes.clear()
Clear(procs) == <<>>

\* processes.insert(name, info)
Insert(procs, name, info) ==
  [n \in DOMAIN procs \cup {name} |-> IF n = name THEN info ELSE procs[n]]

\* the child Command::spawn creates: program, arguments, directory
SpawnedChild(info, parts) ==
  [name |-> info.name, program |-> parts[1], args |-> Tail(parts),
   current_dir |-> info.config.working_directory,
   state |-> "running", killed |-> FALSE]

\* what Command::spawn may answer: <<>> for a child, or <<errno>>
SpawnOutcomes ==
  IF Len(os) < MaxSpawns
    THEN {<<>>} \cup {<<e>> : e \in OsErrors}
    ELSE {<<"EAGAIN">>}  \* the limit on the number of processes

\* what start_process leaves: its result, the map, the children, and what
\* Command::spawn answered: <<>> when it was not called, else <<outcome>>
Started(result, procs, osv, spawn) ==
  [result |-> result, processes |-> procs, os |-> osv, spawn |-> spawn]

\* cmd.spawn() that keeps no handle of the child it got
SpawnAndForget(procs, osv, name, parts, outcome) ==
  IF outcome # <<>>
    THEN Started(StartFailedError(name, outcome[1]), procs, osv, <<outcome>>)
    ELSE Started(OkUnit, procs, Append(osv, SpawnedChild(procs[name], parts)),
                 <<outcome>>)

\* cmd.spawn() and what follows it, the OS answering with outcome
SpawnAndHold(procs, osv, name, parts, outcome) ==
  IF outcome # <<>>
    THEN Started(StartFailedError(name, outcome[1]), procs, osv, <<outcome>>)
    ELSE Started(OkUnit, [procs EXCEPT ![name].child = <<Len(osv) + 1>>],
                 Append(osv, SpawnedChild(procs[name], parts)), <<outcome>>)

\* start_process that does not look for a handle before it spawns
StartProcessRespawn(procs, osv, name, outcome) ==
  IF name \notin DOMAIN procs
    THEN Started(NotFoundError(name), procs, osv, <<>>)
    ELSE LET parts == SplitWhitespace(procs[name].config.command)
         IN  IF parts = <<>>
               THEN Started(EmptyCommandError(name), procs, osv, <<>>)
               ELSE SpawnAndHold(procs, osv, name, parts, outcome)

\* start_process that looks at the child behind the handle and spawns a
\* replacement for one that has exited
StartProcessReplacesExited(procs, osv, name, outcome) ==
  IF name \notin DOMAIN procs
    THEN Started(NotFoundError(name), procs, osv, <<>>)
    ELSE IF procs[name].child # <<>>
              /\ osv[procs[name].child[1]].state = "running"
      THEN Started(OkUnit, procs, osv, <<>>)
      ELSE LET parts == SplitWhitespace(procs[name].config.command)
           IN  IF parts = <<>>
                 THEN Started(EmptyCommandError(name), procs, osv, <<>>)
                 ELSE SpawnAndHold(procs, osv, name, parts, outcome)

\* start_process that spawns whatever split_whitespace gave, the empty
\* program when it gave nothing
StartProcessNoCommandCheck(procs, osv, name, outcome) ==
  IF name \notin DOMAIN procs
    THEN Started(NotFoundError(name), procs, osv, <<>>)
    ELSE IF procs[name].child # <<>>
      THEN Started(OkUnit, procs, osv, <<>>)
      ELSE SpawnAndHold(procs, osv, name,
                        SplitWhitespace(procs[name].config.command) \o <<<<>>>>,
                        outcome)

\* start_process under the lock, the OS answering a spawn with outcome
StartProcess(procs, osv, name, outcome) ==
  IF name \notin DOMAIN procs
    THEN Started(NotFoundError(name), procs, osv, <<>>)
    ELSE IF procs[name].child # <<>>
      THEN Started(OkUnit, procs, osv, <<>>)
      ELSE LET parts == SplitWhitespace(procs[name].config.command)
           IN  IF parts = <<>>
                 THEN Started(EmptyCommandError(name), procs, osv, <<>>)
                 ELSE SpawnAndHold(procs, osv, name, parts, outcome)

\* child.take() that leaves the handle in the entry
TakeKeepsHandle(info) == info

\* process_info.child.take(): the entry afterwards
Take(info) == [info EXCEPT !.child = <<>>]

\* Child::id(): the pid, which is never 0
ChildId(pid) == pid

\* the entry of name holds a handle and the process behind it is alive
IsRunningAlive(procs, osv, name) ==
  /\ name \in DOMAIN procs
  /\ procs[name].child # <<>>
  /\ osv[procs[name].child[1]].state = "running"

\* is_running: !matches!(child.id(), 0) when there is a handle
IsRunning(procs, osv, name) ==
  IF name \in DOMAIN procs
    THEN IF procs[name].child # <<>>
           THEN ChildId(procs[name].child[1]) # 0
           ELSE FALSE
    ELSE FALSE

\* get_process_port that answers the proxy's default port for an absent entry
GetProcessPortDefault(procs, name) ==
  IF name \in DOMAIN procs THEN procs[name].port ELSE <<DefaultPort>>

\* get_process_port: processes.get(name).and_then(|p| p.port)
GetProcessPort(procs, name) ==
  IF name \in DOMAIN procs THEN procs[name].port ELSE <<>>

\* get_process_routes: the routes of the entry, or the default Vec
GetProcessRoutes(procs, name) ==
  IF name \in DOMAIN procs THEN procs[name].config.routes ELSE <<>>

\* a caller is inside one of the supervisor's functions
Active(t) == threads[t].pc \notin {"idle", "returned"}

\* the bulk calls in progress that a step of t under the lock runs beside
Beside(t) ==
  interleaved \cup
    {u \in Threads \ {t} : Active(u) /\ threads[u].op \in {"start_all", "stop_all"}}

\* one entry of a caller's log: a start_process or stop_process it made,
\* what it returned, the entry's handle before and after it, and what
\* Command::spawn answered in it
LogEntry(call, name, result, before, after, spawn) ==
  [call |-> call, name |-> name, result |-> result, before |-> before,
   after |-> after, spawn |-> spawn]

\* a bulk operation that gives up at the first failure
ContinueStopsAtError(th, call, r) ==
  IF th.queue = <<>> \/ r.tag = "Err"
    THEN [th EXCEPT !.pc = "returned", !.result = <<r>>, !.queue = <<>>]
    ELSE [th EXCEPT !.pc = call, !.name = Head(th.queue),
                    !.queue = Tail(th.queue)]

\* restart_process that starts whatever stop_process returned
ContinueRestartAlways(th, call, r) ==
  IF call = "stop" THEN [th EXCEPT !.pc = "start"]
  ELSE [th EXCEPT !.pc = "returned", !.result = <<r>>]

\* restart_process: self.stop_process(name)?; self.start_process(name)
ContinueRestart(th, call, r) ==
  IF call = "stop" /\ r.tag = "Ok"
    THEN [th EXCEPT !.pc = "start"]
    ELSE [th EXCEPT !.pc = "returned", !.result = <<r>>]

\* start_all and stop_all: the error is printed, the loop goes on, Ok(())
ContinueBulk(th, call, r) ==
  IF th.queue = <<>>
    THEN [th EXCEPT !.pc = "returned", !.result = <<OkUnit>>]
    ELSE [th EXCEPT !.pc = call, !.name = Head(th.queue),
                    !.queue = Tail(th.queue)]

\* where a caller stands when a start_process or stop_process of its call
\* has returned r
Continue(th, call, r) ==
  CASE th.op \in {"start_process", "stop_process"} ->
         [th EXCEPT !.pc = "returned", !.result = <<r>>]
    [] th.op = "restart_process" -> ContinueRestart(th, call, r)
    [] th.op \in {"start_all", "stop_all"} -> ContinueBulk(th, call, r)

\* a caller entering op on name, with the names still to do after it
Entered(op, pc, name, queue) ==
  [IdleThread EXCEPT !.op = op, !.pc = pc, !.name = name, !.queue = queue,
                     !.names = <<name>> \o queue]

----------------------------------------------------------------------------
(* The supervisor's functions, step by step.  A function locks the map on
   entry and keeps the guard until it returns; a step that waits for the
   lock is enabled when the lock is free. *)

\* the handle of name in procs, None when name has no entry
HandleOf(procs, name) ==
  IF name \in DOMAIN procs THEN procs[name].child ELSE <<>>

\* what a caller has when its call returns: the call, its log, its result,
\* and whether no other caller ran beside it
Report(t, th) ==
  [thread |-> t, op |-> th.op, name |-> th.name, names |-> th.names,
   cfg |-> th.cfg, log |-> th.log, result |-> th.result,
   alone |-> t \notin Beside(t)]

\* caller t, having made a step under the lock, stands at th: in its call,
\* or out of it with its report
Advance(t, th) ==
  IF th.pc = "returned"
    THEN /\ threads' = [threads EXCEPT ![t] = IdleThread]
         /\ returned' = <<Report(t, th)>>
         /\ interleaved' = Beside(t) \ {t}
    ELSE /\ threads' = [threads EXCEPT ![t] = th]
         /\ returned' = <<>>
         /\ interleaved' = Beside(t)

\* start_process(name) gets as far as Command::spawn
ReachesSpawn(procs, osv, name) == StartProcess(procs, osv, name, <<>>).spawn # <<>>

\* one start_process(th.name) made by caller t standing at th, the OS
\* answering the spawn if it is reached
StartProcessStep(t, th) ==
  /\ lock = <<>>
  /\ \E outcome \in IF ReachesSpawn(processes, os, th.name)
                      THEN SpawnOutcomes ELSE {<<>>} :
       LET r == StartProcess(processes, os, th.name, outcome)
           entry == LogEntry("start", th.name, r.result,
                             HandleOf(processes, th.name),
                             HandleOf(r.processes, th.name), r.spawn)
       IN  /\ processes' = r.processes
           /\ os' = r.os
           /\ Advance(t, Continue([th EXCEPT !.log = Append(@, entry)],
                                  "start", r.result))
  /\ lock' = lock
  /\ UNCHANGED proxyVars
  /\ UNCHANGED otherVars

\* one stop_process(th.name) made by caller t standing at th, up to
\* child.take(): it returns at once when there is no entry or no handle
StopProcessBegin(t, th) ==
  /\ lock = <<>>
  /\ IF th.name \notin DOMAIN processes
       THEN /\ Advance(t, Continue([th EXCEPT !.log = Append(@,
                             LogEntry("stop", th.name, NotFoundError(th.name),
                                      <<>>, <<>>, <<>>))],
                          "stop", NotFoundError(th.name)))
            /\ UNCHANGED <<processes, lock>>
       ELSE IF processes[th.name].child = <<>>
         THEN /\ Advance(t, Continue([th EXCEPT !.log = Append(@,
                               LogEntry("stop", th.name, OkUnit, <<>>, <<>>,
                                        <<>>))],
                            "stop", OkUnit))
              /\ UNCHANGED <<processes, lock>>
         ELSE /\ processes' = [processes EXCEPT ![th.name] = Take(@)]
              /\ lock' = <<t>>
              /\ Advance(t, [th EXCEPT !.pc = "kill",
                                       !.taken = processes[th.name].child])
  /\ os' = os
  /\ UNCHANGED proxyVars
  /\ UNCHANGED otherVars

\* let _ = child.kill(): SIGKILL is sent to the pid, whatever it does
Kill(t) ==
  /\ threads[t].pc = "kill"
  /\ lock = <<t>>
  /\ os' = [os EXCEPT ![threads[t].taken[1]] =
              [@ EXCEPT !.killed = TRUE,
                        !.state = IF @ = "running" THEN "exited" ELSE @]]
  /\ Advance(t, [threads[t] EXCEPT !.pc = "wait"])
  /\ UNCHANGED <<processes, lock>>
  /\ UNCHANGED proxyVars
  /\ UNCHANGED otherVars

\* let _ = child.wait(): blocks until the child has exited and reaps it;
\* then stop_process returns Ok(()) and the guard is dropped
Wait(t) ==
  /\ threads[t].pc = "wait"
  /\ lock = <<t>>
  /\ os[threads[t].taken[1]].state = "exited"
  /\ os' = [os EXCEPT ![threads[t].taken[1]].state = "reaped"]
  /\ lock' = <<>>
  /\ Advance(t,
       Continue([threads[t] EXCEPT
                   !.taken = <<>>,
                   !.log = Append(@, LogEntry("stop", threads[t].name, OkUnit,
                                    threads[t].taken,
                                    HandleOf(processes, threads[t].name),
                                    <<>>))],
                "stop", OkUnit))
  /\ UNCHANGED processes
  /\ UNCHANGED proxyVars
  /\ UNCHANGED otherVars

\* load_processes(config) up to processes.clear(), the config's map then
\* being iterated in some order
LoadProcesses(t) ==
  /\ threads[t].pc = "idle"
  /\ "load_processes" \in Functions(t)
  /\ lock = <<>>
  /\ \E cfg \in ManagerConfigs :
       \E order \in IterOrders(DOMAIN cfg) :
         Advance(t, [IdleThread EXCEPT !.op = "load_processes", !.pc = "insert",
                                       !.cfg = <<cfg>>, !.queue = order])
  /\ processes' = Clear(processes)
  /\ lock' = <<t>>
  /\ os' = os
  /\ UNCHANGED proxyVars
  /\ UNCHANGED otherVars

\* one turn of the loop of load_processes: a fresh ProcessInfo is inserted
LoadInsert(t) ==
  /\ threads[t].pc = "insert"
  /\ lock = <<t>>
  /\ threads[t].queue # <<>>
  /\ LET name == Head(threads[t].queue)
     IN  processes' = Insert(processes, name,
                             ProcessInfo(name, threads[t].cfg[1][name]))
  /\ Advance(t, [threads[t] EXCEPT !.queue = Tail(@)])
  /\ UNCHANGED <<lock, os>>
  /\ UNCHANGED proxyVars
  /\ UNCHANGED otherVars

\* load_processes returns Ok(()) and drops the guard
LoadReturn(t) ==
  /\ threads[t].pc = "insert"
  /\ lock = <<t>>
  /\ threads[t].queue = <<>>
  /\ Advance(t, [threads[t] EXCEPT !.pc = "returned", !.result = <<OkUnit>>])
  /\ lock' = <<>>
  /\ UNCHANGED <<processes, os>>
  /\ UNCHANGED proxyVars
  /\ UNCHANGED otherVars

\* start_process(name) called by t
StartProcessCall(t) ==
  /\ threads[t].pc = "idle"
  /\ "start_process" \in Functions(t)
  /\ \E name \in Names :
       StartProcessStep(t, Entered("start_process", "start", name, <<>>))

\* stop_process(name) called by t
StopProcessCall(t) ==
  /\ threads[t].pc = "idle"
  /\ "stop_process" \in Functions(t)
  /\ \E name \in Names :
       StopProcessBegin(t, Entered("stop_process", "stop", name, <<>>))

\* restart_process(name) called by t: its stop_process
RestartProcess(t) ==
  /\ threads[t].pc = "idle"
  /\ "restart_process" \in Functions(t)
  /\ \E name \in Names :
       StopProcessBegin(t, Entered("restart_process", "stop", name, <<>>))

\* restart_process: its start_process, the stop having returned Ok
RestartStart(t) ==
  /\ threads[t].op = "restart_process"
  /\ threads[t].pc = "start"
  /\ StartProcessStep(t, threads[t])

\* start_all and stop_all: the names are copied under the lock, in the
\* map's iteration order, and the lock is released
Snapshot(t, op, call) ==
  /\ threads[t].pc = "idle"
  /\ op \in Functions(t)
  /\ lock = <<>>
  /\ \E order \in IterOrders(DOMAIN processes) :
       Advance(t, IF order = <<>>
                    THEN [IdleThread EXCEPT !.op = op, !.pc = "returned",
                                            !.result = <<OkUnit>>]
                    ELSE Entered(op, call, Head(order), Tail(order)))
  /\ UNCHANGED <<processes, lock, os>>
  /\ UNCHANGED proxyVars
  /\ UNCHANGED otherVars

\* start_all() called by t
StartAll(t) == Snapshot(t, "start_all", "start")

\* start_all: start_process of the next name
StartNext(t) ==
  /\ threads[t].op = "start_all"
  /\ threads[t].pc = "start"
  /\ StartProcessStep(t, threads[t])

\* stop_all() called by t
StopAll(t) == Snapshot(t, "stop_all", "stop")

\* stop_all: stop_process of the next name
StopNext(t) ==
  /\ threads[t].op = "stop_all"
  /\ threads[t].pc = "stop"
  /\ StopProcessBegin(t, threads[t])

\* a read-only function called by t on name: one locked read
Query(t, op, name, value) ==
  /\ threads[t].pc = "idle"
  /\ op \in Functions(t)
  /\ lock = <<>>
  /\ Advance(t, [IdleThread EXCEPT !.op = op, !.pc = "returned",
                                   !.name = name, !.result = <<value>>])
  /\ UNCHANGED <<processes, lock, os>>
  /\ UNCHANGED proxyVars
  /\ UNCHANGED otherVars

\* is_running(name) called by t
IsRunningCall(t) ==
  \E name \in Names : Query(t, "is_running", name, IsRunning(processes, os, name))

\* get_process_port(name) called by t
GetProcessPortCall(t) ==
  \E name \in Names :
    Query(t, "get_process_port", name, GetProcessPort(processes, name))

\* get_process_routes(name) called by t
GetProcessRoutesCall(t) ==
  \E name \in Names :
    Query(t, "get_process_routes", name, GetProcessRoutes(processes, name))

\* list_processes() called by t: the keys, as a set
ListProcesses(t) == Query(t, "list_processes", "", DOMAIN processes)

\* a child exits on its own
ChildExits(pid) ==
  /\ os[pid].state = "running"
  /\ os' = [os EXCEPT ![pid].state = "exited"]
  /\ returned' = <<>>
  /\ UNCHANGED <<processes, lock, threads, interleaved>>
  /\ UNCHANGED proxyVars
  /\ UNCHANGED otherVars

\* the state in which cli builds the supervisor
InitManager ==
  /\ config = <<>>
  /\ server = "none"
  /\ route_map = <<>>
  /\ lookup = <<>>
  /\ conns = [c \in Conns |-> IdleConn]
  /\ listening = {}
  /\ failed = {}
  /\ NewProcessManager
  /\ NothingElse

NextManager ==
  \/ \E t \in Threads :
       \/ LoadProcesses(t)
       \/ LoadInsert(t)
       \/ LoadReturn(t)
       \/ StartProcessCall(t)
       \/ StopProcessCall(t)
       \/ RestartProcess(t)
       \/ RestartStart(t)
       \/ StartAll(t)
       \/ StartNext(t)
       \/ StopAll(t)
       \/ StopNext(t)
       \/ Kill(t)
       \/ Wait(t)
       \/ IsRunningCall(t)
       \/ GetProcessPortCall(t)
       \/ GetProcessRoutesCall(t)
       \/ ListProcesses(t)
  \/ \E pid \in 1..Len(os) : ChildExits(pid)

SpecManager == InitManager /\ [][NextManager]_vars

----------------------------------------------------------------------------
(* What the claims on the supervisor speak of *)

\* the report of the call that the latest step completed
Ret == returned[1]

\* the latest step completed a call of op
Returned(op) == returned # <<>> /\ Ret.op = op

\* the step completes a call of op
Returns(op) == returned' # <<>> /\ returned'[1].op = op

\* the words of an error message name the process
NamesProcess(result, name) ==
  \E i \in 1..Len(result.message) : result.message[i] = name

\* the entry of name has an empty or blank command
EmptyCommand(name) ==
  /\ name \in DOMAIN processes
  /\ SplitWhitespace(processes[name].config.command) = <<>>

----------------------------------------------------------------------------
(* C12 *)

\* what C12 says of the state in which a call returns
C12_State ==
  returned # <<>> =>
    \A i \in 1..Len(Ret.log) :
      (Ret.log[i].call = "start" /\ Ret.log[i].before # <<>>) =>
        /\ Ret.log[i].result = OkUnit
        /\ Ret.log[i].spawn = <<>>
        /\ Ret.log[i].after = Ret.log[i].before

\* what C12 says of the step in which start_process returns
C12_Step ==
  (Returns("start_process") /\ returned'[1].log[1].before # <<>>) =>
    /\ processes' = processes
    /\ os' = os

\* C12: start_process on an entry that holds a handle returns Ok, calls no
\* spawn and leaves the handle that was there, the map and the children as
\* they were; so repeated calls leave the one child of the first.
C12_StartIdempotent == []C12_State /\ [][C12_Step]_vars

\* C12 witness: start_process has returned from an entry that held a handle,
\* and the entry still holds it.
C12_Witness ==
  /\ Returned("start_process")
  /\ Ret.log[1].before # <<>>
  /\ Ret.result[1] = OkUnit
  /\ HandleOf(processes, Ret.name) = Ret.log[1].before

----------------------------------------------------------------------------
(* C13 *)

\* caller t is in stop_process between child.take() and the child's exit
MidStop(t) == threads[t].pc \in {"kill", "wait"}

\* what C13 says of the state: a stop_process that returns has returned Ok
\* unless the name is not registered, the entry has no handle and is not
\* running, and a handle it took belongs to a child killed and reaped; a
\* stop in progress holds the lock
C13_State ==
  /\ Returned("stop_process") =>
       /\ Ret.name \in DOMAIN processes => Ret.result[1] = OkUnit
       /\ HandleOf(processes, Ret.name) = <<>>
       /\ ~IsRunning(processes, os, Ret.name)
       /\ Ret.log[1].before # <<>> =>
            /\ os[Ret.log[1].before[1]].killed
            /\ os[Ret.log[1].before[1]].state = "reaped"
  /\ \A t \in Threads : MidStop(t) => lock = <<t>>

\* what C13 says of a step: no other caller moves while a stop is between
\* take and exit, and a stop that found no handle changes nothing
C13_Step ==
  /\ \A t \in Threads :
       MidStop(t) => \A u \in Threads \ {t} : threads'[u] = threads[u]
  /\ (Returns("stop_process") /\ returned'[1].log[1].before = <<>>) =>
       /\ processes' = processes
       /\ os' = os

\* C13: stop_process on a registered name returns Ok and leaves the entry
\* without a handle and not running; a handle it found belongs to a child
\* that was sent the kill and reaped before the return, nobody else reading
\* the map in between; without a handle nothing changes.
C13_StopProcess == []C13_State /\ [][C13_Step]_vars

\* C13 witness: stop_process has returned from an entry whose child it
\* killed and reaped.
C13_Witness ==
  /\ Returned("stop_process")
  /\ Ret.log[1].before # <<>>
  /\ os[Ret.log[1].before[1]].state = "reaped"
  /\ Ret.result[1] = OkUnit

----------------------------------------------------------------------------
(* C14 *)

\* what C14 says of the state in which start_process returns
C14_State ==
  (Returned("start_process") /\ EmptyCommand(Ret.name)) =>
    /\ Ret.result[1] = EmptyCommandError(Ret.name)
    /\ Ret.log[1].spawn = <<>>
    /\ HandleOf(processes, Ret.name) = <<>>

\* what C14 says of the step in which it returns
C14_Step ==
  (Returns("start_process") /\ EmptyCommand(returned'[1].name)) =>
    /\ processes' = processes
    /\ os' = os

\* C14: start_process on an entry whose command is empty or blank returns
\* the empty-command error that names the process, calls no spawn, and
\* leaves the entry without a handle and the map and the children unchanged.
C14_EmptyCommand == []C14_State /\ [][C14_Step]_vars

\* C14 witness: start_process has returned an error for an entry whose
\* command holds whitespace only.
C14_Witness ==
  /\ Returned("start_process")
  /\ EmptyCommand(Ret.name)
  /\ processes[Ret.name].config.command # <<>>
  /\ Ret.result[1].tag = "Err"

----------------------------------------------------------------------------
(* C15 *)

\* what C15 says of the state in which a call returns: of every
\* start_process it made
C15_State ==
  returned # <<>> =>
    \A i \in 1..Len(Ret.log) :
      LET e == Ret.log[i]
      IN  e.call = "start" =>
            \* the spawn failed: the error names the process and carries the
            \* OS error, and no handle is held
            /\ (e.spawn # <<>> /\ e.spawn[1] # <<>>) =>
                 /\ e.result.tag = "Err"
                 /\ NamesProcess(e.result, e.name)
                 /\ e.result.source = e.spawn[1]
                 /\ e.after = <<>>
            \* the spawn succeeded: Ok and a handle
            /\ (e.spawn # <<>> /\ e.spawn[1] = <<>>) =>
                 /\ e.result = OkUnit
                 /\ e.after # <<>>
            \* a start that fails leaves the entry as it was: without a handle
            /\ e.result.tag = "Err" => (e.before = <<>> /\ e.after = <<>>)

\* what C15 says of the step in which start_process returns: an entry without
\* a handle and with a command gets its spawn attempted, whatever came before
C15_Step ==
  \A n \in Names :
    ( /\ Returns("start_process")
      /\ returned'[1].name = n
      /\ n \in DOMAIN processes
      /\ processes[n].child = <<>>
      /\ ~EmptyCommand(n) ) =>
        /\ returned'[1].log[1].spawn # <<>>
        /\ returned'[1].log[1].result.tag = "Err" =>
             (processes' = processes /\ os' = os)

\* C15: when the OS fails the spawn, start_process returns an error that
\* names the process and carries the OS error, and the entry stays without a
\* handle; every start_process on an entry without a handle attempts the
\* spawn, and holds a handle when the spawn succeeds.
C15_SpawnFailure == []C15_State /\ [][C15_Step]_vars

\* C15 witness: start_process has returned the error of a failed spawn of a
\* program that exists (the OS refused a further process), the entry being
\* without a handle.
C15_Witness ==
  /\ Returned("start_process")
  /\ Ret.log[1].spawn = <<<<"EAGAIN">>>>
  /\ Ret.result[1].source = <<"EAGAIN">>
  /\ HandleOf(processes, Ret.name) = <<>>

----------------------------------------------------------------------------
(* C16 *)

\* the functions that take a name
TakesName ==
  {"is_running", "get_process_port", "get_process_routes", "start_process",
   "stop_process"}

\* what C16 says of the state in which a call on a name returns
C16_State ==
  (returned # <<>> /\ Ret.op \in TakesName /\ Ret.name \notin DOMAIN processes) =>
    CASE Ret.op = "is_running" -> Ret.result[1] = FALSE
      [] Ret.op = "get_process_port" -> Ret.result[1] = None
      [] Ret.op = "get_process_routes" -> Ret.result[1] = <<>>
      [] OTHER -> /\ Ret.result[1] = NotFoundError(Ret.name)
                  /\ NamesProcess(Ret.result[1], Ret.name)
                  /\ Ret.log[1].spawn = <<>>
                  /\ Ret.log[1].before = <<>>

\* what C16 says of the step in which it returns
C16_Step ==
  ( /\ returned' # <<>>
    /\ returned'[1].op \in TakesName
    /\ returned'[1].name \notin DOMAIN processes ) =>
      (processes' = processes /\ os' = os)

\* C16: for a name that has no entry, is_running returns false,
\* get_process_port None, get_process_routes the empty sequence, and
\* start_process and stop_process the not-found error that names it; the map
\* and the children are unchanged, nothing is spawned and nothing killed.
C16_UnknownName == []C16_State /\ [][C16_Step]_vars

\* C16 witness: get_process_port has returned for a name that has no entry
\* while the map holds other entries, one of them with a port.
C16_Witness ==
  /\ Returned("get_process_port")
  /\ Ret.name \notin DOMAIN processes
  /\ \E n \in DOMAIN processes : processes[n].port # <<>>

----------------------------------------------------------------------------
(* C17 *)

\* C17: is_running returns true only if the entry holds a handle and the
\* process behind the handle is alive when it is called; so it returns false
\* for an entry whose child has exited on its own.
C17_IsRunningMeansAlive ==
  (Returned("is_running") /\ Ret.result[1] = TRUE) =>
    IsRunningAlive(processes, os, Ret.name)

----------------------------------------------------------------------------
(* C18 *)

\* the child behind a handle was sent the kill and has been reaped
KilledAndReaped(handle) ==
  os[handle[1]].killed /\ os[handle[1]].state = "reaped"

\* C18: restart_process is stop_process and then start_process.  When the stop
\* fails the start is not made and the stop's error, a not-found, is the
\* result; else the result is the start's, a failed start leaves the entry
\* without a handle, and after a successful one the child the stop took has
\* been killed and reaped and the entry holds a handle of a child spawned
\* after it.
C18_Restart ==
  Returned("restart_process") =>
    /\ Ret.log[1].call = "stop" /\ Ret.log[1].name = Ret.name
    /\ IF Ret.log[1].result.tag = "Err"
         THEN /\ Len(Ret.log) = 1
              /\ Ret.result[1] = NotFoundError(Ret.name)
         ELSE /\ Len(Ret.log) = 2
              /\ Ret.log[2].call = "start" /\ Ret.log[2].name = Ret.name
              /\ Ret.result[1] = Ret.log[2].result
              /\ Ret.log[1].before # <<>> => KilledAndReaped(Ret.log[1].before)
              /\ IF Ret.result[1].tag = "Err"
                   THEN HandleOf(processes, Ret.name) = <<>>
                   ELSE /\ HandleOf(processes, Ret.name) # <<>>
                        /\ os[HandleOf(processes, Ret.name)[1]].state # "reaped"
                        /\ Ret.log[1].before # <<>> =>
                             HandleOf(processes, Ret.name)[1] > Ret.log[1].before[1]

\* C18 witness: restart_process has returned Ok from an entry that held a
\* handle: the old child is reaped and the entry holds another handle.
C18_Witness ==
  /\ Returned("restart_process")
  /\ Ret.result[1] = OkUnit
  /\ Ret.log[1].before # <<>>
  /\ KilledAndReaped(Ret.log[1].before)
  /\ HandleOf(processes, Ret.name) # Ret.log[1].before
  /\ HandleOf(processes, Ret.name) # <<>>

\* C18 witness of the partial failure: the stop took a handle, the start
\* failed, and the entry is left without a handle.
C18_WitnessPartial ==
  /\ Returned("restart_process")
  /\ Len(Ret.log) = 2
  /\ Ret.log[1].before # <<>>
  /\ Ret.result[1].tag = "Err"
  /\ HandleOf(processes, Ret.name) = <<>>

----------------------------------------------------------------------------
(* C19 *)

\* the names of a log, in its order
RECURSIVE LogNames(_)
LogNames(log) ==
  IF log = <<>> THEN <<>> ELSE <<Head(log).name>> \o LogNames(Tail(log))

\* the entry of a log that is about name
LogOf(log, name) == CHOOSE e \in {log[i] : i \in 1..Len(log)} : e.name = name

\* what C19 says of the state in which start_all or stop_all returns
C19_State ==
  (Returned("start_all") \/ Returned("stop_all")) =>
    /\ Ret.result[1] = OkUnit
    \* one attempt for each name of the snapshot, none twice
    /\ LogNames(Ret.log) = Ret.names
    /\ \A i, j \in 1..Len(Ret.names) : Ret.names[i] = Ret.names[j] => i = j
    /\ \A i \in 1..Len(Ret.log) :
         Ret.log[i].call = (IF Ret.op = "start_all" THEN "start" ELSE "stop")
    \* with nobody beside it
    /\ Ret.alone =>
         /\ DOMAIN processes = {Ret.names[i] : i \in 1..Len(Ret.names)}
         /\ Ret.op = "stop_all" =>
              \A n \in DOMAIN processes : processes[n].child = <<>>
         /\ Ret.op = "start_all" =>
              \A n \in DOMAIN processes :
                \/ processes[n].child # <<>>
                \/ EmptyCommand(n)
                \/ /\ LogOf(Ret.log, n).spawn # <<>>
                   /\ LogOf(Ret.log, n).spawn[1] # <<>>

\* what C19 says of the step in which the names are taken: they are the
\* names registered then
C19_Step ==
  \A t \in Threads :
    ( /\ threads[t].pc = "idle"
      /\ threads'[t].op \in {"start_all", "stop_all"} ) =>
        {threads'[t].names[i] : i \in 1..Len(threads'[t].names)} = DOMAIN processes

\* C19: start_all and stop_all attempt start_process, resp. stop_process,
\* exactly once for each name registered when they begin, go on after a
\* failure, and return Ok; run alone, stop_all leaves no entry with a handle
\* and start_all leaves a handle in every entry whose command is not empty
\* and whose spawn the OS did not fail.
C19_BulkOperations == []C19_State /\ [][C19_Step]_vars

\* C19 witness: start_all, run alone, has returned Ok after a failure on its
\* first name and holds a handle for the second.
C19_Witness ==
  /\ Returned("start_all")
  /\ Ret.alone
  /\ Len(Ret.log) = 2
  /\ Ret.log[1].result.tag = "Err"
  /\ Ret.log[2].result = OkUnit
  /\ HandleOf(processes, Ret.log[2].name) # <<>>

\* C19 witness of a name removed meanwhile: stop_all has returned Ok with a
\* not-found for its first name and a child taken from the second.
C19_WitnessRemoved ==
  /\ Returned("stop_all")
  /\ Len(Ret.log) = 2
  /\ Ret.log[1].result = NotFoundError(Ret.log[1].name)
  /\ Ret.log[2].before # <<>>

----------------------------------------------------------------------------
(* C20 *)

\* the map a load of cfg leaves
Loaded(cfg) == [n \in DOMAIN cfg |-> ProcessInfo(n, cfg[n])]

\* caller t is in load_processes between clear() and its return
MidLoad(t) == threads[t].pc = "insert"

\* what C20 says of the state: when load_processes returns, the map is the
\* config's, entry by entry, without handles; a load in progress holds the lock
C20_State ==
  /\ Returned("load_processes") =>
       /\ Ret.result[1] = OkUnit
       /\ DOMAIN processes = DOMAIN Ret.cfg[1]
       /\ processes = Loaded(Ret.cfg[1])
       /\ \A n \in DOMAIN processes :
            /\ processes[n].child = <<>>
            /\ GetProcessPort(processes, n) = Ret.cfg[1][n].port
            /\ GetProcessRoutes(processes, n) = Ret.cfg[1][n].routes
  /\ \A t \in Threads : MidLoad(t) => lock = <<t>>

\* what C20 says of a step: while a load is between clear() and its return
\* no other caller moves, so none sees the map empty, partly filled or mixed
C20_Step ==
  \A t \in Threads :
    MidLoad(t) => \A u \in Threads \ {t} : threads'[u] = threads[u]

\* C20: load_processes replaces the whole map under one lock: at its return
\* the names are the config's and no others, every entry is without a
\* handle and has the configured port and routes, no other caller has read
\* the map in between, and the result is Ok.
C20_LoadProcesses == []C20_State /\ [][C20_Step]_vars

\* C20 witness: load_processes has returned over a map that held another
\* config's entries, one of them with a live child.
C20_Witness ==
  /\ Returned("load_processes")
  /\ processes = Loaded(Ret.cfg[1])
  /\ \E pid \in 1..Len(os) :
       /\ os[pid].state = "running"
       /\ os[pid].name \notin DOMAIN processes

----------------------------------------------------------------------------
(* The Start and Stop commands: src/src/cli/mod.rs, handle_start and
   handle_stop.  Each command is its own OS process with its own
   ProcessManager; processes is the map of the command that is calling the
   supervisor, and the children are the OS's. *)

\* stop_process run to its return with nobody beside it: take, kill, wait
StopProcess(procs, osv, name) ==
  IF name \notin DOMAIN procs
    THEN [result |-> NotFoundError(name), processes |-> procs, os |-> osv]
    ELSE IF procs[name].child = <<>>
      THEN [result |-> OkUnit, processes |-> procs, os |-> osv]
      ELSE [result |-> OkUnit,
            processes |-> [procs EXCEPT ![name] = Take(@)],
            os |-> [osv EXCEPT ![procs[name].child[1]] =
                      [@ EXCEPT !.killed = TRUE, !.state = "reaped"]]]

\* handle_start: ProcessManager::new(), load_processes(&config), and the
\* names start_all copies
HandleStartLoad ==
  /\ cli.pc = "none"
  /\ \E cfg \in ManagerConfigs :
       /\ processes' = [n \in DOMAIN cfg |-> ProcessInfo(n, cfg[n])]
       /\ \E order \in IterOrders(DOMAIN cfg) :
            cli' = [pc |-> "start_all", cfg |-> <<cfg>>, queue |-> order,
                    started |-> <<>>]
  /\ UNCHANGED <<lock, os, threads, interleaved, returned>>
  /\ UNCHANGED <<parsing, accept_loop, seen>>
  /\ UNCHANGED proxyVars

\* handle_start: start_all's start_process of the next name, its error printed
HandleStartNext ==
  /\ cli.pc = "start_all"
  /\ cli.queue # <<>>
  /\ \E outcome \in IF ReachesSpawn(processes, os, Head(cli.queue))
                      THEN SpawnOutcomes ELSE {<<>>} :
       LET r == StartProcess(processes, os, Head(cli.queue), outcome)
       IN  processes' = r.processes /\ os' = r.os
  /\ cli' = [cli EXCEPT !.queue = Tail(@)]
  /\ UNCHANGED <<lock, threads, interleaved, returned>>
  /\ UNCHANGED <<parsing, accept_loop, seen>>
  /\ UNCHANGED proxyVars

\* handle_start: the manager moves into ProxyServer::new and the command
\* serves until it is ended
HandleStartServe ==
  /\ cli.pc = "start_all"
  /\ cli.queue = <<>>
  /\ cli' = [cli EXCEPT !.pc = "serving", !.started = <<processes>>]
  /\ UNCHANGED supVars
  /\ UNCHANGED <<parsing, accept_loop, seen>>
  /\ UNCHANGED proxyVars

\* handle_stop, run with or without a Start command serving: realm.yml is
\* read, ProcessManager::new(), load_processes(&config), and the names
\* stop_all copies
HandleStopLoad ==
  /\ cli.pc \in {"none", "serving"}
  /\ \E cfg \in IF cli.pc = "serving" THEN {cli.cfg[1]} ELSE ManagerConfigs :
       /\ processes' = [n \in DOMAIN cfg |-> ProcessInfo(n, cfg[n])]
       /\ \E order \in IterOrders(DOMAIN cfg) :
            cli' = [cli EXCEPT !.pc = "stop_all", !.cfg = <<cfg>>,
                               !.queue = order]
  /\ UNCHANGED <<lock, os, threads, interleaved, returned>>
  /\ UNCHANGED <<parsing, accept_loop, seen>>
  /\ UNCHANGED proxyVars

\* handle_stop: stop_all's stop_process of the next name
HandleStopNext ==
  /\ cli.pc = "stop_all"
  /\ cli.queue # <<>>
  /\ LET r == StopProcess(processes, os, Head(cli.queue))
     IN  processes' = r.processes /\ os' = r.os
  /\ cli' = [cli EXCEPT !.queue = Tail(@)]
  /\ UNCHANGED <<lock, threads, interleaved, returned>>
  /\ UNCHANGED <<parsing, accept_loop, seen>>
  /\ UNCHANGED proxyVars

\* handle_stop: stop_all has returned, "All processes stopped" is printed
HandleStopReport ==
  /\ cli.pc = "stop_all"
  /\ cli.queue = <<>>
  /\ cli' = [cli EXCEPT !.pc = "stopped"]
  /\ UNCHANGED supVars
  /\ UNCHANGED <<parsing, accept_loop, seen>>
  /\ UNCHANGED proxyVars

NextCli ==
  \/ HandleStartLoad
  \/ HandleStartNext
  \/ HandleStartServe
  \/ HandleStopLoad
  \/ HandleStopNext
  \/ HandleStopReport
  \/ \E pid \in 1..Len(os) : ChildExits(pid)

SpecCli == InitManager /\ [][NextCli]_vars

----------------------------------------------------------------------------
(* C21 *)

\* C21: when the Stop command reports that all processes are stopped, none of
\* the children the Start command spawned is still alive.
C21_StopTerminatesAll ==
  cli.pc = "stopped" => \A pid \in 1..Len(os) : os[pid].state # "running"

(***************************************************************************)
(* Runtime::parse (src/src/runtime/types.rs), called by the Init command   *)
(* on the runtime specification the operator typed.                        *)
(***************************************************************************)

At == "@"

Latest == <<"l", "a", "t", "e", "s", "t">>

\* str::split('@'): the pieces between the separators, empty pieces included
RECURSIVE SplitAtFrom(_, _, _)
SplitAtFrom(s, i, piece) ==
  IF i > Len(s) THEN <<piece>>
  ELSE IF s[i] = At THEN <<piece>> \o SplitAtFrom(s, i + 1, <<>>)
  ELSE SplitAtFrom(s, i + 1, Append(piece, s[i]))

SplitAt(s) == SplitAtFrom(s, 1, <<>>)

\* Iterator::nth(n), counted from zero
Nth(it, n) == IF n + 1 <= Len(it) THEN Some(it[n + 1]) ELSE None

UnwrapOr(opt, default) == IF opt = None THEN default ELSE opt[1]

\* the version expression repeated in the three accepting branches of parse
Version(runtime_spec) ==
  IF Contains(runtime_spec, At)
  THEN UnwrapOr(Nth(SplitAt(runtime_spec), 1), Latest)
  ELSE Latest

UnknownRuntime(runtime_spec) ==
  [ok |-> FALSE,
   error |-> <<"Unknown runtime: ", runtime_spec,
               ". Supported: bun, node, python">>]

Runtime(variant, version) == [ok |-> TRUE, name |-> variant, version |-> version]

RuntimeParse(runtime_spec) ==
  IF StartsWith(runtime_spec, <<"b", "u", "n">>)
  THEN Runtime("bun", Version(runtime_spec))
  ELSE IF StartsWith(runtime_spec, <<"n", "o", "d", "e">>)
  THEN Runtime("node", Version(runtime_spec))
  ELSE IF \/ StartsWith(runtime_spec, <<"p", "y", "t", "h", "o", "n">>)
          \/ StartsWith(runtime_spec, <<"p", "y">>)
  THEN Runtime("python", Version(runtime_spec))
  ELSE UnknownRuntime(runtime_spec)

\* the runtime specifications tried: a word, a letter or digit after it, and
\* what follows
SpecWords ==
  { <<>>, <<"b", "u", "n">>, <<"n", "o", "d", "e">>,
    <<"p", "y", "t", "h", "o", "n">>, <<"p", "y">>,
    <<"i", "n", "v", "a", "l", "i", "d">>, <<"b">> }

SpecTails == { <<>>, <<"x">>, <<"2">> }

SpecVersions ==
  { <<>>, <<"@">>, <<"@", "1">>, <<"@", "1", ".", "0">>,
    <<"@", "1", "@", "2">>, <<"@", "@", "2">> }

RuntimeSpecs ==
  { w \o t \o v : w \in SpecWords, t \in SpecTails, v \in SpecVersions }

\* handle_init: parse the runtime specification; an error ends the command
HandleInitParse ==
  /\ \E runtime_spec \in RuntimeSpecs :
       parsing' = <<[runtime_spec |-> runtime_spec,
                     result |-> RuntimeParse(runtime_spec)]>>
  /\ UNCHANGED <<cli, accept_loop, seen>>
  /\ UNCHANGED supVars
  /\ UNCHANGED proxyVars

NextRuntime == HandleInitParse

SpecRuntime == InitManager /\ [][NextRuntime]_vars

(***************************************************************************)
(* C22                                                                     *)
(***************************************************************************)

\* the text of a runtime specification before its first '@'
NamedRuntime(runtime_spec) == SplitAt(runtime_spec)[1]

\* C22: Runtime::parse accepts a runtime specification exactly when it names
\* bun or node, optionally followed by '@version'; every other specification,
\* such as "python", "invalid@1.0" or the empty string, yields an error.
C22_AcceptsOnlyBunAndNode ==
  \A i \in 1..Len(parsing) :
    parsing[i].result.ok <=>
      NamedRuntime(parsing[i].runtime_spec)
        \in { <<"b", "u", "n">>, <<"n", "o", "d", "e">> }

(***************************************************************************)
(* The supervisor in a session: the registry is loaded once from the       *)
(* config (handle_start) and its clones are then used by several threads.  *)
(***************************************************************************)

InitOperate ==
  /\ config = <<>>
  /\ server = "none"
  /\ route_map = <<>>
  /\ lookup = <<>>
  /\ conns = [c \in Conns |-> IdleConn]
  /\ listening = {}
  /\ failed = {}
  /\ \E cfg \in ManagerConfigs : processes = Loaded(cfg)
  /\ lock = <<>>
  /\ os = <<>>
  /\ threads = [t \in Threads |-> IdleThread]
  /\ interleaved = {}
  /\ returned = <<>>
  /\ NothingElse

NextOperate ==
  \/ \E t \in Threads :
       \/ StartProcessCall(t)
       \/ StopProcessCall(t)
       \/ RestartProcess(t)
       \/ RestartStart(t)
       \/ StartAll(t)
       \/ StartNext(t)
       \/ StopAll(t)
       \/ StopNext(t)
       \/ Kill(t)
       \/ Wait(t)
  \/ \E pid \in 1..Len(os) : ChildExits(pid)

SpecOperate == InitOperate /\ [][NextOperate]_vars

(***************************************************************************)
(* C23                                                                     *)
(***************************************************************************)

\* the children spawned for name that have not been reaped
Unreaped(name) ==
  { pid \in 1..Len(os) : os[pid].name = name /\ os[pid].state # "reaped" }

\* C23: whatever start_process, stop_process, restart_process, start_all and
\* stop_all the threads interleave, no name has two children that are not yet
\* killed and reaped: a child is spawned for a name only when every child
\* spawned for it before has been reaped.
C23_OneLiveChildPerEntry ==
  \A name \in Names : Cardinality(Unreaped(name)) <= 1

\* C23 witness: between the stop and the start of a restart by t1, t2 has
\* started the same name again, whose first child is reaped.
C23_Witness ==
  /\ threads["t1"].op = "restart_process"
  /\ threads["t1"].pc = "start"
  /\ \E p, q \in 1..Len(os) :
       /\ os[p].name = threads["t1"].name
       /\ os[q].name = threads["t1"].name
       /\ os[p].state = "reaped"
       /\ os[q].state = "running"
       /\ processes[threads["t1"].name].child = <<q>>

(***************************************************************************)
(* C24                                                                     *)
(***************************************************************************)

\* the supervisor has killed and reaped child pid
Terminated(pid) == os[pid].killed /\ os[pid].state = "reaped"

\* C24: every child the supervisor spawned and has not killed and reaped is
\* the handle of an entry of the map (or is in the hands of the stop_process
\* that took it and is killing it), also after a load_processes that ran
\* while children were running.
C24_NoChildWithoutHandle ==
  \A pid \in 1..Len(os) :
    \/ Terminated(pid)
    \/ \E name \in DOMAIN processes : processes[name].child = <<pid>>
    \/ \E t \in Threads : MidStop(t) /\ threads[t].taken = <<pid>>

(***************************************************************************)
(* The proxy serving beside a supervisor whose registry is reloaded: the   *)
(* Start command loads the registry and builds the ProxyServer from the    *)
(* same config; clones of the ProcessManager may then call load_processes. *)
(***************************************************************************)

InitReload ==
  /\ \E cfg \in ManagerConfigs :
       /\ config = cfg
       /\ processes = Loaded(cfg)
       /\ \E order \in IterOrders(DOMAIN cfg) :
            route_map = BuildRouteMap(cfg, order)
  /\ server = "new"
  /\ lookup = <<>>
  /\ conns = [c \in Conns |-> IdleConn]
  /\ listening = {}
  /\ failed = {}
  /\ lock = <<>>
  /\ os = <<>>
  /\ threads = [t \in Threads |-> IdleThread]
  /\ interleaved = {}
  /\ returned = <<>>
  /\ NothingElse

NextReload ==
  \/ \E t \in Threads :
       \/ LoadProcesses(t)
       \/ LoadInsert(t)
       \/ LoadReturn(t)
  \/ Lookup

SpecReload == InitReload /\ [][NextReload]_vars

(***************************************************************************)
(* C25                                                                     *)
(***************************************************************************)

\* the config of every entry of the supervisor's registry
RegistryConfig == [name \in DOMAIN processes |-> processes[name].config]

\* no load_processes is between its clear() and its return
NoLoadInProgress == \A t \in Threads : ~MidLoad(t)

\* what C25 says of the state: the proxy's table is build_route_map of the
\* registry as it is now
C25_State ==
  (server = "new" /\ NoLoadInProgress) =>
    \E order \in IterOrders(DOMAIN processes) :
      route_map = BuildRouteMap(RegistryConfig, order)

\* what C25 says of the step that resolves a request's path
C25_Step ==
  (lookup' # lookup /\ NoLoadInProgress) =>
    \E order \in IterOrders(DOMAIN processes) :
      lookup'[2] = FindMatchingRoute(lookup'[1],
                                     BuildRouteMap(RegistryConfig, order))

\* C25: the proxy's route table is always the one built from the supervisor's
\* current registry: after load_processes has changed the registry, the table
\* is rebuilt, and every path resolved from then on is matched against
\* build_route_map of the new registry.
C25_RouteTableFollowsRegistry == []C25_State /\ [][C25_Step]_vars

(***************************************************************************)
(* C26 (SpecRoute)                                                         *)
(***************************************************************************)

\* what the lookup of path returns when the table is built with the process
\* map iterated in order
ResolvedIn(order, path) == FindMatchingRoute(path, BuildRouteMap(config, order))

\* C26: the result of a lookup depends on the registry and the path only:
\* whatever the iteration order of the process map from which the table was
\* built, the same process and port, or the same "no match", is returned,
\* also when two processes register the same pattern or matching wildcard
\* patterns of equal length.
C26_ResolutionDeterministic ==
  LookupDone =>
    \A order \in IterOrders(DOMAIN config) :
      ResolvedIn(order, LookupPath) = LookupResult

(***************************************************************************)
(* C27 (SpecRoute)                                                         *)
(***************************************************************************)

\* the (process, index of a route in its list) pairs of the config
RoutePairs ==
  { pr \in (DOMAIN config) \X (1..MaxRoutes) :
      pr[2] <= Len(config[pr[1]].routes) }

\* the entry due to a pair: its pattern, its process, and the process's
\* configured port or 3000
EntryDue(pr) ==
  [pattern |-> config[pr[1]].routes[pr[2]],
   process |-> pr[1],
   port |-> IF config[pr[1]].port = <<>> THEN 3000 ELSE config[pr[1]].port[1]]

\* C27: the built table holds one entry for every (process, route) pair of
\* the config and nothing else, each with the pair's pattern, the process
\* name and the process's port, 3000 when none is configured; a process
\* without routes has no entry and is never what a lookup returns.
C27_OneEntryPerRoute ==
  server = "new" =>
    /\ Len(route_map) = Cardinality(RoutePairs)
    /\ \A e \in TableEntries \cup { EntryDue(pr) : pr \in RoutePairs } :
         Cardinality({ i \in 1..Len(route_map) : route_map[i] = e })
           = Cardinality({ pr \in RoutePairs : EntryDue(pr) = e })
    /\ \A q \in DOMAIN config :
         config[q].routes = <<>> =>
           /\ \A e \in TableEntries : e.process # q
           /\ (LookupDone /\ LookupResult # NoMatch) => LookupResult[1] # q

\* C27 witness: one process has no routes, the other has no port and lists a
\* pattern twice among its routes; the table is built and a lookup has
\* returned that process with port 3000.
C27_Witness ==
  /\ server = "new"
  /\ LookupDone
  /\ \E q, r \in DOMAIN config :
       /\ config[q].routes = <<>>
       /\ config[r].port = <<>>
       /\ \E i, j \in 1..Len(config[r].routes) :
            i < j /\ config[r].routes[i] = config[r].routes[j]
       /\ Len(route_map) = Len(config[r].routes)
       /\ LookupResult = <<r, 3000>>

(***************************************************************************)
(* ProxyServer::start: the listener is bound and the loop accepts          *)
(* connections, each served by a task of its own.                          *)
(***************************************************************************)

\* what TcpListener::bind may fail with
BindErrors == {"EADDRINUSE"}

\* what a single accept may fail with while the listener stays usable
TransientAcceptErrors == {"ECONNABORTED"}

\* what accept fails with when the listener itself is lost
FatalAcceptErrors == {"EBADF"}

AcceptErrors == TransientAcceptErrors \cup FatalAcceptErrors

\* TcpListener::bind(addr).await.context("Failed to bind proxy server")
BindFailedError(errno) ==
  [tag |-> "Err", message |-> <<"Failed to bind proxy server">>,
   source |-> <<errno>>]

\* listener.accept().await?: the io::Error as it is
AcceptFailedError(errno) ==
  [tag |-> "Err", message |-> <<>>, source |-> <<errno>>]

\* start binds the listener: on failure it returns the error, else it enters
\* the loop
StartBind ==
  /\ server = "new"
  /\ accept_loop.pc = "none"
  /\ \/ accept_loop' = [accept_loop EXCEPT !.pc = "accept"]
     \/ \E errno \in BindErrors :
          accept_loop' = [pc |-> "returned",
                          result |-> <<BindFailedError(errno)>>]
  /\ UNCHANGED <<cli, parsing, seen>>
  /\ UNCHANGED proxyVars
  /\ UNCHANGED supVars

\* a loop that awaits the task of each connection before it accepts again
LoopWaitsForTasks(c) ==
  /\ accept_loop.pc = "accept"
  /\ \A d \in Conns : conns[d].pc \in {"idle", "done"}

\* tokio::task::spawn returns at once: the loop stands at accept again while
\* the tasks of the connections it accepted run
LoopReady(c) == accept_loop.pc = "accept"

\* the connections in the order in which they were last accepted
AcceptedLast(order, c) == SelectSeq(order, LAMBDA d : d # c) \o <<c>>

\* one turn of the loop: accept returns a connection, a task is spawned for
\* it and runs handle_request on its request to its first await, and the loop
\* is back at accept
LoopAccept(c) ==
  /\ LoopReady(c)
  /\ conns[c].pc = "idle"
  /\ \E req \in Requests :
       conns' = [conns EXCEPT ![c] = HandleRequest(req, route_map, failed)]
  /\ seen' = AcceptedLast(seen, c)
  /\ UNCHANGED <<config, server, route_map, lookup, listening, failed>>
  /\ UNCHANGED <<cli, parsing, accept_loop>>
  /\ UNCHANGED supVars

\* listener.accept().await? fails: start returns the error
LoopAcceptErr ==
  /\ accept_loop.pc = "accept"
  /\ \E errno \in AcceptErrors :
       accept_loop' = [pc |-> "returned",
                       result |-> <<AcceptFailedError(errno)>>]
  /\ UNCHANGED <<cli, parsing, seen>>
  /\ UNCHANGED proxyVars
  /\ UNCHANGED supVars

NextAccept ==
  \/ StartBind
  \/ \E c \in Conns : LoopAccept(c)
  \/ LoopAcceptErr
  \/ \E c \in Conns : CollectBodyOk(c)
  \/ \E c \in Conns : CollectBodyErr(c)
  \/ \E c \in Conns : ConnectErr(c)
  \/ \E c \in Conns : ConnectOk(c)
  \/ \E c \in Conns : ResponseBodyOk(c)
  \/ \E c \in Conns : ResponseBodyErr(c)
  \/ \E c \in Conns : Finish(c)

SpecAccept == Init /\ [][NextAccept]_vars

(***************************************************************************)
(* C28                                                                     *)
(***************************************************************************)

\* the handler of c waits for the request body, for the upstream connection
\* or for the upstream's response body
Suspended(c) == conns[c].pc \in {"collect", "connect", "resp_body"}

\* the task of c has ended without a response
TaskFailed(c) == conns[c].pc = "panicked"

\* the handler of c can make its next step
CanProceed(c) ==
  ENABLED (\/ CollectBodyOk(c) \/ CollectBodyErr(c)
           \/ ConnectErr(c) \/ ConnectOk(c)
           \/ ResponseBodyOk(c) \/ ResponseBodyErr(c))

\* C28: while the loop runs, a connection whose handler is suspended or has
\* failed holds up no other connection: a waiting connection can be accepted
\* at once, and the handler of another connection can go on to its answer,
\* so the answers may come in any order.
C28_AcceptNeverWaits ==
  \A c \in Conns : \A d \in Conns \ {c} :
    (accept_loop.pc = "accept" /\ (Suspended(d) \/ TaskFailed(d))) =>
      /\ conns[c].pc = "idle" => ENABLED LoopAccept(c)
      /\ Suspended(c) => CanProceed(c)

\* C28 witness: c1 was accepted before c2 and its handler is still waiting
\* for the upstream, while c2 has its response; the loop is at accept.
C28_Witness ==
  /\ accept_loop.pc = "accept"
  /\ seen = <<"c1", "c2">>
  /\ conns["c1"].pc = "resp_body"
  /\ conns["c2"].pc = "done"
  /\ conns["c2"].routed
  /\ conns["c2"].received
  /\ conns["c2"].response # None

(***************************************************************************)
(* C29                                                                     *)
(***************************************************************************)

\* C29: start returns only with an error, and only because the bind failed
\* or the listener was lost; a failed accept that leaves the listener usable
\* does not end the loop, and neither does an error in serving a connection.
C29_LoopEndsOnlyOnFatalError ==
  accept_loop.pc = "returned" =>
    /\ accept_loop.result[1].tag = "Err"
    /\ \/ accept_loop.result[1] \in { BindFailedError(e) : e \in BindErrors }
       \/ accept_loop.result[1].source[1] \in FatalAcceptErrors

(***************************************************************************)
(* C30 (SpecOperate)                                                       *)
(***************************************************************************)

\* the step spawns a child for name
Spawns(name) == Len(os') = Len(os) + 1 /\ os'[Len(os')].name = name

\* the step takes the handle of name out of its entry, in a stop_process
\* called directly or by restart_process or stop_all
StopClears(name) ==
  /\ processes'[name].child = <<>>
  /\ \E t \in Threads :
       /\ threads'[t].op \in {"stop_process", "restart_process", "stop_all"}
       /\ threads'[t].pc = "kill"
       /\ threads'[t].name = name
       /\ threads'[t].taken = processes[name].child

\* what C30 says of a step
C30_Step ==
  \A name \in DOMAIN processes :
    /\ Spawns(name) => processes[name].child = <<>>
    /\ (processes[name].child # <<>>
          /\ processes'[name].child # processes[name].child)
         => StopClears(name)

\* C30: start_process spawns for a name only when its entry holds no handle.
\* A handle stays in its entry, also when its child has exited on its own,
\* until a stop_process (called directly, by restart_process or by stop_all)
\* takes it; so no start_process or start_all spawns a replacement for an
\* exited child before such a stop.
C30_SpawnOnlyWithoutHandle == [][C30_Step]_vars

\* C30 witness: the child of an entry has exited on its own and is still the
\* entry's handle; start_process on that name has just returned Ok without a
\* spawn, and the exited child is the only child there is.
C30_Witness ==
  /\ Returned("start_process")
  /\ Ret.result = <<OkUnit>>
  /\ Ret.log[1].spawn = <<>>
  /\ Ret.log[1].before # <<>>
  /\ processes[Ret.name].child = Ret.log[1].before
  /\ os[Ret.log[1].before[1]].state = "exited"
  /\ ~os[Ret.log[1].before[1]].killed
  /\ Len(os) = 1

============================================================================
